---- MODULE Spec2Model ----
(***************************************************************************)
(* Model of lc/pfzf: the concurrent file scanner of                        *)
(* internal/scanner/scanner.go (Scan, Stop, startScan, the walker          *)
(* goroutine, the worker pool) together with its consumer.                 *)
(*                                                                         *)
(* Go semantics used throughout:                                           *)
(*   - results, errors and paths are unbuffered channels: a send and a     *)
(*     receive form one rendezvous step;                                   *)
(*   - a select whose cases are ready picks any ready case;                *)
(*   - a send on a closed channel and a close of a closed channel panic,   *)
(*     and a panic in any goroutine ends the whole process;                *)
(*   - sync.WaitGroup: Wait returns when it observes the counter at zero.  *)
(***************************************************************************)
EXTENDS Integers, Sequences, FiniteSets, TLC

\* ------------------------------------------------------------------------
\* Program constants
\* ------------------------------------------------------------------------
binaryCheckSize == 512

workerCount == 4

DefaultMaxFileSize == 1048576

\* binaryThreshold = 0.3, kept as the exact fraction ThresholdNum/ThresholdDen
ThresholdNum == 3

ThresholdDen == 10

\* ------------------------------------------------------------------------
\* Bounds
\* ------------------------------------------------------------------------
\* number of Stop() calls the client may make on one Scanner
MaxStops == 2

\* the same, in the runs checked for liveness
FairStops == 1

\* ------------------------------------------------------------------------
\* Strings are tuples of one-character strings
\* ------------------------------------------------------------------------
HasPrefix(s, p) == Len(s) >= Len(p) /\ SubSeq(s, 1, Len(p)) = p

HasSuffix(s, p) == Len(s) >= Len(p) /\ SubSeq(s, Len(s) - Len(p) + 1, Len(s)) = p

TrimSuffix(s, p) == IF HasSuffix(s, p) THEN SubSeq(s, 1, Len(s) - Len(p)) ELSE s

Separator == "/"

\* filepath.Match for patterns built from literals, '*' and '?': '*' matches
\* any run of non-separator characters, '?' one non-separator character; the
\* whole name must match.
RECURSIVE Match(_, _)
Match(pattern, name) ==
    IF pattern = <<>> THEN name = <<>>
    ELSE IF Head(pattern) = "*"
         THEN \/ Match(Tail(pattern), name)
              \/ (name # <<>> /\ Head(name) # Separator /\ Match(pattern, Tail(name)))
    ELSE IF Head(pattern) = "?"
         THEN name # <<>> /\ Head(name) # Separator /\ Match(Tail(pattern), Tail(name))
    ELSE name # <<>> /\ Head(name) = Head(pattern) /\ Match(Tail(pattern), Tail(name))

\* ------------------------------------------------------------------------
\* The directory tree being scanned, in the order filepath.Walk visits it
\* (depth first, names of a directory in lexical order).
\*     .            1
\*     ./a          2   text file, 5 bytes
\*     ./d          3
\*     ./d/b        4   binary file, 4 bytes (0,1,2,3)
\*     ./e          5
\*     ./e/c        6   text file, 2 bytes
\* ------------------------------------------------------------------------
Tree ==
    << [rel |-> <<".">>,           parent |-> 0, isDir |-> TRUE,  bytes |-> <<>>],
       [rel |-> <<"a">>,           parent |-> 1, isDir |-> FALSE, bytes |-> <<104, 101, 108, 108, 111>>],
       [rel |-> <<"d">>,           parent |-> 1, isDir |-> TRUE,  bytes |-> <<>>],
       [rel |-> <<"d", "/", "b">>, parent |-> 3, isDir |-> FALSE, bytes |-> <<0, 1, 2, 3>>],
       [rel |-> <<"e">>,           parent |-> 1, isDir |-> TRUE,  bytes |-> <<>>],
       [rel |-> <<"e", "/", "c">>, parent |-> 5, isDir |-> FALSE, bytes |-> <<111, 107>>] >>

Nodes == 1..Len(Tree)

Files == {n \in Nodes : ~Tree[n].isDir}

Dirs == {n \in Nodes : Tree[n].isDir}

\* the position after the last node: the walk is over
WalkEnd == Len(Tree) + 1

RECURSIVE IsUnder(_, _)
\* n lies strictly beneath directory d
IsUnder(n, d) ==
    IF n = 0 \/ Tree[n].parent = 0 THEN FALSE
    ELSE Tree[n].parent = d \/ IsUnder(Tree[n].parent, d)

\* the first node filepath.Walk visits once it is done with n and everything
\* beneath n
AfterSubtree(n) ==
    LET later == {m \in Nodes : m > n /\ ~IsUnder(m, n)}
    IN  IF later = {} THEN WalkEnd
        ELSE CHOOSE m \in later : \A k \in later : m <= k

\* Failures of the file system, fixed for one run:
\*   lstatFail  entries whose os.Lstat fails during the walk
\*   readFail   directories whose listing fails (permission denied)
\*   statFail   files whose os.Stat / os.Open fails in the worker
NoFailure == [lstatFail |-> {}, readFail |-> {}, statFail |-> {}]

FsCases ==
    { NoFailure,
      [lstatFail |-> {},  readFail |-> {3}, statFail |-> {}],
      [lstatFail |-> {4}, readFail |-> {},  statFail |-> {}],
      [lstatFail |-> {},  readFail |-> {},  statFail |-> {4}] }

\* ------------------------------------------------------------------------
\* Options
\* ------------------------------------------------------------------------
\* the options New() leaves in s.opts when no Option is given
NewOpts ==
    [RootDir |-> <<".">>, MaxFileSize |-> DefaultMaxFileSize,
     IgnorePattern |-> <<>>, MaxFiles |-> 0]

\* the ScanOptions the client passes to Scan
ScanOptsSet ==
    { [RootDir |-> <<>>, MaxFileSize |-> 0, IgnorePattern |-> <<>>, MaxFiles |-> 0],
      [RootDir |-> <<"/", "t">>, MaxFileSize |-> 4, IgnorePattern |-> <<>>, MaxFiles |-> 0],
      [RootDir |-> <<>>, MaxFileSize |-> 0, IgnorePattern |-> << <<"d", "/", "*">> >>, MaxFiles |-> 0],
      [RootDir |-> <<>>, MaxFileSize |-> 0, IgnorePattern |-> << <<"e">> >>, MaxFiles |-> 0] }

\* how the client consumes the two streams:
\*   "both"     receives from results and errors whenever either is offered
\*   "results"  receives from results only (this is also what a client that
\*              ranges over results first and over errors afterwards does
\*              for as long as results is open)
ConsumerModes == {"both", "results"}

VARIABLES
    opts,        \* s.opts
    fs,          \* the failures of the file system
    consMode,    \* the client's way of consuming
    scanCalled,  \* Scan() has returned
    cancelled,   \* s.ctx is done
    wg,          \* s.wg counter
    closed,      \* which of the channels results, errors, paths are closed
    closeCount,  \* how often close() was called on each channel
    fault,       \* "none" or the panic that ended the process
    sspc,        \* startScan goroutine: position
    ssi,         \* startScan goroutine: loop variable i
    wlkpc,       \* walker goroutine: position
    wlknode,     \* walker goroutine: the entry walkFn is called for
    wkpc,        \* worker goroutines: position
    wkpath,      \* worker goroutines: path received (0: none)
    stoppc,      \* Stop() calls: position
    resCount,    \* per file: FileEntry values delivered on results
    errCount,    \* per file: "processing file" errors delivered on errors
    walkErrCount,\* per entry: "walk error" errors delivered on errors
    entries,     \* the FileEntry values delivered on results
    recvCount,   \* per file: how often a worker received it
    lateHandoff, \* files handed to a worker after cancellation
    lateDescent, \* directories the walker descended into after cancellation
    aborted,     \* files whose emission was abandoned by a worker
    ctor,        \* a call of New(opts...) followed by Scan: its progress
    skipProbe,   \* an entry and options put to shouldSkip, and the answer
    binProbe,    \* file contents put to isBinaryFile, and the answers
    chunker,     \* a call of Chunker.Chunk: its memory and its progress
    writer,      \* a FileWriter, its output file and the calls made on it
    app          \* an App: its scanner's streams, its entries and its goroutines

\* the variables of the scanner proper
scannerVars == << opts, fs, consMode, scanCalled, cancelled, wg, closed, closeCount,
                  fault, sspc, ssi, wlkpc, wlknode, wkpc, wkpath, stoppc,
                  resCount, errCount, walkErrCount, entries, recvCount,
                  lateHandoff, lateDescent, aborted >>

\* the variables of the calls that are followed one at a time
otherVars == << ctor, skipProbe, binProbe, chunker, writer, app >>

vars == << scannerVars, otherVars >>

Workers == 1..workerCount

\* the Stop() calls of this run
Stoppers == DOMAIN stoppc

Channels == {"results", "errors", "paths"}

\* the process is alive
Running == fault = "none"

\* ------------------------------------------------------------------------
\* Pure functions of the scanner
\* ------------------------------------------------------------------------
Size(n) == Len(Tree[n].bytes)

\* unicode.IsGraphic(rune(b)) for a byte b (the Latin-1 range)
IsGraphic(b) == (b >= 32 /\ b <= 126) \/ (b >= 160 /\ b <= 255 /\ b # 173)

\* unicode.IsSpace(rune(b)) for a byte b
IsSpace(b) == b \in {9, 10, 11, 12, 13, 32, 133, 160}

\* a classifier that calls a ratio equal to the threshold binary
isBinarySampleAtThreshold(bytes) ==
    LET n   == IF Len(bytes) < binaryCheckSize THEN Len(bytes) ELSE binaryCheckSize
        buf == SubSeq(bytes, 1, n)
        nonPrintable ==
            Cardinality({i \in 1..n : buf[i] = 0 \/ (~IsGraphic(buf[i]) /\ ~IsSpace(buf[i]))})
    IN  IF n = 0 THEN FALSE
        ELSE nonPrintable * ThresholdDen >= ThresholdNum * n

\* a classifier that reads the whole file
isBinarySampleWholeFile(bytes) ==
    LET n   == Len(bytes)
        buf == bytes
        nonPrintable ==
            Cardinality({i \in 1..n : buf[i] = 0 \/ (~IsGraphic(buf[i]) /\ ~IsSpace(buf[i]))})
    IN  IF n = 0 THEN FALSE
        ELSE nonPrintable * ThresholdDen > ThresholdNum * n

\* isBinaryFile once the file is open: sample, count, compare the ratio
isBinarySample(bytes) ==
    LET n   == IF Len(bytes) < binaryCheckSize THEN Len(bytes) ELSE binaryCheckSize
        buf == SubSeq(bytes, 1, n)
        nonPrintable ==
            Cardinality({i \in 1..n : buf[i] = 0 \/ (~IsGraphic(buf[i]) /\ ~IsSpace(buf[i]))})
    IN  IF n = 0 THEN FALSE
        ELSE nonPrintable * ThresholdDen > ThresholdNum * n

\* a pattern that hits only the path equal to it
PatternHitsLiteral(pattern, relPath) ==
    pattern = relPath

\* one pattern of s.opts.IgnorePattern against the relative path
PatternHits(pattern, relPath) ==
    \/ Match(pattern, relPath)
    \/ /\ HasSuffix(pattern, <<"/", "*">>)
       /\ HasPrefix(relPath, TrimSuffix(pattern, <<"/", "*">>) \o <<Separator>>)

\* the path filepath.Walk(root, ...) passes to the walk function for node n:
\* the root as given, filepath.Join(dir, name) below it
WalkPath(root, n) ==
    IF Tree[n].parent = 0 THEN root
    ELSE IF root = <<".">> THEN Tree[n].rel
    ELSE root \o <<Separator>> \o Tree[n].rel

\* a Rel that returns the path it was given
RelAsGiven(base, targ) == targ

\* filepath.Rel(base, targ) for a targ that is base or lies beneath it, as
\* every path of the walk does
Rel(base, targ) ==
    IF targ = base THEN <<".">>
    ELSE IF base = <<".">> THEN targ
    ELSE IF HasPrefix(targ, base \o <<Separator>>)
         THEN SubSeq(targ, Len(base) + 2, Len(targ))
    ELSE <<".", ".", Separator>> \o targ

\* shouldSkip with the size test applied to directories as well
shouldSkipInfoAnyKind(relPath, isDir, size, o) ==
    IF size > o.MaxFileSize THEN <<TRUE, FALSE>>
    ELSE IF \E i \in 1..Len(o.IgnorePattern) : PatternHits(o.IgnorePattern[i], relPath)
         THEN <<TRUE, isDir>>
    ELSE <<FALSE, FALSE>>

\* the body of shouldSkip on what it reads of its arguments: the path
\* relative to the root, info.IsDir() and info.Size()
shouldSkipInfo(relPath, isDir, size, o) ==
    IF ~isDir /\ size > o.MaxFileSize THEN <<TRUE, FALSE>>
    ELSE IF \E i \in 1..Len(o.IgnorePattern) : PatternHits(o.IgnorePattern[i], relPath)
         THEN <<TRUE, isDir>>
    ELSE <<FALSE, FALSE>>

\* shouldSkip with the size test written >= instead of >
shouldSkipAtCap(n, o) ==
    IF ~Tree[n].isDir /\ Size(n) >= o.MaxFileSize THEN <<TRUE, FALSE>>
    ELSE IF \E i \in 1..Len(o.IgnorePattern) : PatternHits(o.IgnorePattern[i], Tree[n].rel)
         THEN <<TRUE, Tree[n].isDir>>
    ELSE <<FALSE, FALSE>>

\* shouldSkip(path, info): the pair (skip, skipDir)
shouldSkip(n, o) ==
    shouldSkipInfo(Rel(o.RootDir, WalkPath(o.RootDir, n)), Tree[n].isDir, Size(n), o)

\* processFile(path): a complete FileEntry, or an error and no entry
processFile(n, failures) ==
    IF n \in failures.statFail
    THEN [ok |-> FALSE, err |-> "stat error", path |-> Tree[n].rel]
    ELSE [ok |-> TRUE,
          entry |-> [Path |-> Rel(opts.RootDir, WalkPath(opts.RootDir, n)), Size |-> Size(n),
                     IsBinary |-> isBinarySample(Tree[n].bytes),
                     IsSelected |-> FALSE, Language |-> <<>>]]

\* a merge that takes every field of the ScanOptions, zero or not
MergeOptsOverwrite(cur, o) ==
    [RootDir       |-> o.RootDir,
     MaxFileSize   |-> o.MaxFileSize,
     IgnorePattern |-> o.IgnorePattern,
     MaxFiles      |-> o.MaxFiles]

\* Scan's merge of the ScanOptions into s.opts
MergeOpts(cur, o) ==
    [RootDir       |-> IF o.RootDir # <<>> THEN o.RootDir ELSE cur.RootDir,
     MaxFileSize   |-> IF o.MaxFileSize > 0 THEN o.MaxFileSize ELSE cur.MaxFileSize,
     IgnorePattern |-> IF Len(o.IgnorePattern) > 0 THEN o.IgnorePattern ELSE cur.IgnorePattern,
     MaxFiles      |-> IF o.MaxFiles > 0 THEN o.MaxFiles ELSE cur.MaxFiles]

\* ------------------------------------------------------------------------
\* Initial state: a Scanner as New() returns it
\* ------------------------------------------------------------------------
InitScanner(stoppers, modes) ==
    /\ opts = NewOpts
    /\ fs \in FsCases
    /\ consMode \in modes
    /\ scanCalled = FALSE
    /\ cancelled = FALSE
    /\ wg = 0
    /\ closed = [c \in Channels |-> FALSE]
    /\ closeCount = [c \in Channels |-> 0]
    /\ fault = "none"
    /\ sspc = "idle"
    /\ ssi = 0
    /\ wlkpc = "idle"
    /\ wlknode = 0
    /\ wkpc = [w \in Workers |-> "none"]
    /\ wkpath = [w \in Workers |-> 0]
    /\ stoppc = [i \in stoppers |-> "idle"]
    /\ resCount = [n \in Nodes |-> 0]
    /\ errCount = [n \in Nodes |-> 0]
    /\ walkErrCount = [n \in Nodes |-> 0]
    /\ entries = {}
    /\ recvCount = [n \in Nodes |-> 0]
    /\ lateHandoff = {}
    /\ lateDescent = {}
    /\ aborted = {}

\* no call of New, shouldSkip, isBinaryFile or Chunk is being followed
CtorIdle ==
    ctor = [pc |-> "built", pending |-> <<>>, given |-> <<>>, built |-> NewOpts,
            arg |-> NewOpts]

SkipIdle == skipProbe = [kind |-> "none"]

BinIdle == binProbe = [pc |-> "none"]

ChunkerIdle == chunker = [pc |-> "none"]

\* no FileWriter and no App is being followed
WriterIdle == writer = [pc |-> "none"]

AppIdle == app = [pc |-> "none"]

OthersIdle == CtorIdle /\ SkipIdle /\ BinIdle /\ ChunkerIdle /\ WriterIdle /\ AppIdle

Init == InitScanner(1..MaxStops, ConsumerModes) /\ OthersIdle

clientVars == << opts, fs, consMode, scanCalled >>

ghostVars == << resCount, errCount, walkErrCount, entries, recvCount,
                lateHandoff, lateDescent, aborted >>

startVars == << sspc, ssi >>

walkerVars == << wlkpc, wlknode >>

workerVars == << wkpc, wkpath >>

chanVars == << closed, closeCount >>

\* ------------------------------------------------------------------------
\* Scanner.Scan and Scanner.Stop
\* ------------------------------------------------------------------------
\* Scan(o): merge the options, start the startScan goroutine, return
Scan(o) ==
    /\ Running
    /\ UNCHANGED otherVars
    /\ ~scanCalled
    /\ opts' = MergeOpts(opts, o)
    /\ scanCalled' = TRUE
    /\ sspc' = "spawn"
    /\ UNCHANGED << fs, consMode, cancelled, wg, chanVars, fault, ssi,
                    walkerVars, workerVars, stoppc, ghostVars >>

\* a Stop() that also closes the two streams itself
StopCancelClosing(i) ==
    /\ Running
    /\ UNCHANGED otherVars
    /\ scanCalled
    /\ stoppc[i] = "idle"
    /\ cancelled' = TRUE
    /\ stoppc' = [stoppc EXCEPT ![i] = "wait"]
    /\ closeCount' = [closeCount EXCEPT !["results"] = @ + 1, !["errors"] = @ + 1]
    /\ closed' = [closed EXCEPT !["results"] = TRUE, !["errors"] = TRUE]
    /\ fault' = IF closed["results"] \/ closed["errors"]
                THEN "close of closed channel" ELSE fault
    /\ UNCHANGED << clientVars, wg, startVars, walkerVars, workerVars, ghostVars >>

\* Stop(), first statement: s.cancel()
StopCancel(i) ==
    /\ Running
    /\ UNCHANGED otherVars
    /\ scanCalled
    /\ stoppc[i] = "idle"
    /\ cancelled' = TRUE
    /\ stoppc' = [stoppc EXCEPT ![i] = "wait"]
    /\ UNCHANGED << clientVars, wg, chanVars, fault, startVars, walkerVars,
                    workerVars, ghostVars >>

\* Stop(), second statement: s.wg.Wait() returns
StopWait(i) ==
    /\ Running
    /\ UNCHANGED otherVars
    /\ stoppc[i] = "wait"
    /\ wg = 0
    /\ stoppc' = [stoppc EXCEPT ![i] = "done"]
    /\ UNCHANGED << clientVars, cancelled, wg, chanVars, fault, startVars,
                    walkerVars, workerVars, ghostVars >>

\* ------------------------------------------------------------------------
\* startScan
\* ------------------------------------------------------------------------
\* one iteration of the worker loop: s.wg.Add(1); go s.worker(paths)
SpawnWorker ==
    /\ Running
    /\ UNCHANGED otherVars
    /\ sspc = "spawn"
    /\ ssi < workerCount
    /\ wg' = wg + 1
    /\ wkpc' = [wkpc EXCEPT ![ssi + 1] = "select"]
    /\ ssi' = ssi + 1
    /\ sspc' = IF ssi + 1 = workerCount THEN "gowalk" ELSE "spawn"
    /\ UNCHANGED << clientVars, cancelled, chanVars, fault, walkerVars, wkpath,
                    stoppc, ghostVars >>

\* go func() { defer close(paths); filepath.Walk(...) }()
SpawnWalker ==
    /\ Running
    /\ UNCHANGED otherVars
    /\ sspc = "gowalk"
    /\ wlkpc' = "walk"
    /\ wlknode' = 1
    /\ sspc' = "wait"
    /\ UNCHANGED << clientVars, cancelled, wg, chanVars, fault, ssi, workerVars,
                    stoppc, ghostVars >>

\* a startScan that does not wait for the workers before it closes
StartScanNoWait ==
    /\ Running
    /\ UNCHANGED otherVars
    /\ sspc = "wait"
    /\ sspc' = "closeErrors"
    /\ UNCHANGED << clientVars, cancelled, wg, chanVars, fault, ssi, walkerVars,
                    workerVars, stoppc, ghostVars >>

\* s.wg.Wait() at the end of startScan returns
StartScanWait ==
    /\ Running
    /\ UNCHANGED otherVars
    /\ sspc = "wait"
    /\ wg = 0
    /\ sspc' = "closeErrors"
    /\ UNCHANGED << clientVars, cancelled, wg, chanVars, fault, ssi, walkerVars,
                    workerVars, stoppc, ghostVars >>

\* close(c): panics when c is closed already
CloseChan(c) ==
    /\ closeCount' = [closeCount EXCEPT ![c] = @ + 1]
    /\ IF closed[c]
       THEN /\ fault' = "close of closed channel"
            /\ UNCHANGED closed
       ELSE /\ closed' = [closed EXCEPT ![c] = TRUE]
            /\ UNCHANGED fault

\* deferred calls run in the order they were written: s.results first
CloseResultsFirst ==
    /\ Running
    /\ UNCHANGED otherVars
    /\ sspc = "closeErrors"
    /\ CloseChan("results")
    /\ sspc' = "closeResults"
    /\ UNCHANGED << clientVars, cancelled, wg, ssi, walkerVars, workerVars,
                    stoppc, ghostVars >>

\* deferred close(s.errors): the deferred calls run last in, first out
CloseErrors ==
    /\ Running
    /\ UNCHANGED otherVars
    /\ sspc = "closeErrors"
    /\ CloseChan("errors")
    /\ sspc' = "closeResults"
    /\ UNCHANGED << clientVars, cancelled, wg, ssi, walkerVars, workerVars,
                    stoppc, ghostVars >>

\* deferred close(s.results)
CloseResults ==
    /\ Running
    /\ UNCHANGED otherVars
    /\ sspc = "closeResults"
    /\ CloseChan("results")
    /\ sspc' = "done"
    /\ UNCHANGED << clientVars, cancelled, wg, ssi, walkerVars, workerVars,
                    stoppc, ghostVars >>

\* ------------------------------------------------------------------------
\* The walker goroutine: filepath.Walk with the scanner's walkFn
\* ------------------------------------------------------------------------
\* filepath.Walk reaches entry wlknode and calls walkFn(path, info, err) on
\* it, up to the point where walkFn returns or blocks in a select.
\*   err # nil (Lstat of the entry failed, or listing the directory failed):
\*       walkFn goes to the select that sends the walk error;
\*   shouldSkip says skip: a directory returns SkipDir, a file returns nil;
\*   a file that is kept: walkFn goes to the select that sends the path;
\*   a directory that is kept: walkFn returns nil and Walk descends.
WalkVisit ==
    /\ Running
    /\ UNCHANGED otherVars
    /\ wlkpc = "walk"
    /\ wlknode \in Nodes
    /\ LET n    == wlknode
           skip == shouldSkip(n, opts)
       IN  IF n \in fs.lstatFail \/ (Tree[n].isDir /\ n \in fs.readFail)
           THEN /\ wlkpc' = "sendErr"
                /\ UNCHANGED << wlknode, lateDescent >>
           ELSE IF skip[1]
           THEN /\ wlknode' = IF Tree[n].isDir /\ skip[2] THEN AfterSubtree(n) ELSE n + 1
                /\ UNCHANGED << wlkpc, lateDescent >>
           ELSE IF ~Tree[n].isDir
           THEN /\ wlkpc' = "sendPath"
                /\ UNCHANGED << wlknode, lateDescent >>
           ELSE /\ wlknode' = n + 1
                /\ lateDescent' = IF cancelled THEN lateDescent \cup {n} ELSE lateDescent
                /\ UNCHANGED wlkpc
    /\ UNCHANGED << clientVars, cancelled, wg, chanVars, fault, startVars,
                    workerVars, stoppc, resCount, errCount, walkErrCount,
                    entries, recvCount, lateHandoff, aborted >>

\* a walker that, after the handoff, is called for the same file again
HandoffNoAdvance(w) ==
    /\ Running
    /\ UNCHANGED otherVars
    /\ wlkpc = "sendPath"
    /\ wkpc[w] = "select"
    /\ wkpc' = [wkpc EXCEPT ![w] = "proc"]
    /\ wkpath' = [wkpath EXCEPT ![w] = wlknode]
    /\ wlkpc' = "walk"
    /\ wlknode' = wlknode
    /\ recvCount' = [recvCount EXCEPT ![wlknode] = @ + 1]
    /\ lateHandoff' = IF cancelled THEN lateHandoff \cup {wlknode} ELSE lateHandoff
    /\ UNCHANGED << clientVars, cancelled, wg, chanVars, fault, startVars,
                    stoppc, resCount, errCount, walkErrCount, entries,
                    lateDescent, aborted >>

\* a worker that takes the next path while its entry is still unsent
HandoffEager(w) ==
    /\ Running
    /\ UNCHANGED otherVars
    /\ wlkpc = "sendPath"
    /\ wkpc[w] \in {"select", "sendRes"}
    /\ wkpc' = [wkpc EXCEPT ![w] = "proc"]
    /\ wkpath' = [wkpath EXCEPT ![w] = wlknode]
    /\ wlkpc' = "walk"
    /\ wlknode' = wlknode + 1
    /\ recvCount' = [recvCount EXCEPT ![wlknode] = @ + 1]
    /\ lateHandoff' = IF cancelled THEN lateHandoff \cup {wlknode} ELSE lateHandoff
    /\ UNCHANGED << clientVars, cancelled, wg, chanVars, fault, startVars,
                    stoppc, resCount, errCount, walkErrCount, entries,
                    lateDescent, aborted >>

\* select { case paths <- path: ... }: worker w takes the path.  Both ends
\* are selects that also watch s.ctx.Done(); when the context is done the
\* channel operation is still one of the ready cases.
Handoff(w) ==
    /\ Running
    /\ UNCHANGED otherVars
    /\ wlkpc = "sendPath"
    /\ wkpc[w] = "select"
    /\ wkpc' = [wkpc EXCEPT ![w] = "proc"]
    /\ wkpath' = [wkpath EXCEPT ![w] = wlknode]
    /\ wlkpc' = "walk"
    /\ wlknode' = wlknode + 1
    /\ recvCount' = [recvCount EXCEPT ![wlknode] = @ + 1]
    /\ lateHandoff' = IF cancelled THEN lateHandoff \cup {wlknode} ELSE lateHandoff
    /\ UNCHANGED << clientVars, cancelled, wg, chanVars, fault, startVars,
                    stoppc, resCount, errCount, walkErrCount, entries,
                    lateDescent, aborted >>

\* select { ... case <-s.ctx.Done(): return filepath.SkipDir }: SkipDir
\* returned for a file makes Walk skip the rest of the file's directory
WalkPathCancelled ==
    /\ Running
    /\ UNCHANGED otherVars
    /\ wlkpc = "sendPath"
    /\ cancelled
    /\ wlkpc' = "walk"
    /\ wlknode' = AfterSubtree(Tree[wlknode].parent)
    /\ UNCHANGED << clientVars, cancelled, wg, chanVars, fault, startVars,
                    workerVars, stoppc, ghostVars >>

\* a walkFn that returns the error it reported, which ends the walk
WalkSendErrAbort ==
    /\ Running
    /\ UNCHANGED otherVars
    /\ wlkpc = "sendErr"
    /\ IF closed["errors"]
       THEN /\ fault' = "send on closed channel"
            /\ UNCHANGED << walkerVars, walkErrCount >>
       ELSE /\ consMode = "both"
            /\ walkErrCount' = [walkErrCount EXCEPT ![wlknode] = @ + 1]
            /\ wlkpc' = "walk"
            /\ wlknode' = WalkEnd
            /\ UNCHANGED fault
    /\ UNCHANGED << clientVars, cancelled, wg, chanVars, startVars, workerVars,
                    stoppc, resCount, errCount, entries, recvCount,
                    lateHandoff, lateDescent, aborted >>

\* select { case s.errors <- walk error: ... }: the client receives it, or
\* the channel is closed and the send panics; walkFn then returns nil and
\* Walk goes on after the entry
WalkSendErr ==
    /\ Running
    /\ UNCHANGED otherVars
    /\ wlkpc = "sendErr"
    /\ IF closed["errors"]
       THEN /\ fault' = "send on closed channel"
            /\ UNCHANGED << walkerVars, walkErrCount >>
       ELSE /\ consMode = "both"
            /\ walkErrCount' = [walkErrCount EXCEPT ![wlknode] = @ + 1]
            /\ wlkpc' = "walk"
            /\ wlknode' = AfterSubtree(wlknode)
            /\ UNCHANGED fault
    /\ UNCHANGED << clientVars, cancelled, wg, chanVars, startVars, workerVars,
                    stoppc, resCount, errCount, entries, recvCount,
                    lateHandoff, lateDescent, aborted >>

\* select { ... case <-s.ctx.Done(): }: the walk error is dropped
WalkErrCancelled ==
    /\ Running
    /\ UNCHANGED otherVars
    /\ wlkpc = "sendErr"
    /\ cancelled
    /\ wlkpc' = "walk"
    /\ wlknode' = AfterSubtree(wlknode)
    /\ UNCHANGED << clientVars, cancelled, wg, chanVars, fault, startVars,
                    workerVars, stoppc, ghostVars >>

\* filepath.Walk returns; walkFn only ever returns nil or SkipDir, so Walk
\* returns nil, the send of "walk error: ..." is skipped, and the deferred
\* close(paths) runs
WalkFinish ==
    /\ Running
    /\ UNCHANGED otherVars
    /\ wlkpc = "walk"
    /\ wlknode = WalkEnd
    /\ CloseChan("paths")
    /\ wlkpc' = "done"
    /\ UNCHANGED << clientVars, cancelled, wg, startVars, wlknode, workerVars,
                    stoppc, ghostVars >>

\* ------------------------------------------------------------------------
\* Scanner.worker
\* ------------------------------------------------------------------------
\* return, then the deferred s.wg.Done()
WorkerReturn(w) ==
    /\ wkpc' = [wkpc EXCEPT ![w] = "exit"]
    /\ wkpath' = [wkpath EXCEPT ![w] = 0]
    /\ IF wg = 0
       THEN /\ fault' = "negative WaitGroup counter"
            /\ UNCHANGED wg
       ELSE /\ wg' = wg - 1
            /\ UNCHANGED fault

\* case path, ok := <-paths with ok false: paths is closed
WorkerPathsClosed(w) ==
    /\ Running
    /\ UNCHANGED otherVars
    /\ wkpc[w] = "select"
    /\ closed["paths"]
    /\ WorkerReturn(w)
    /\ UNCHANGED << clientVars, cancelled, chanVars, startVars, walkerVars,
                    stoppc, ghostVars >>

\* case <-s.ctx.Done() of the outer select
WorkerCancelled(w) ==
    /\ Running
    /\ UNCHANGED otherVars
    /\ wkpc[w] = "select"
    /\ cancelled
    /\ WorkerReturn(w)
    /\ UNCHANGED << clientVars, cancelled, chanVars, startVars, walkerVars,
                    stoppc, ghostVars >>

\* s.processFile(path)
WorkerProcess(w) ==
    /\ Running
    /\ UNCHANGED otherVars
    /\ wkpc[w] = "proc"
    /\ wkpc' = [wkpc EXCEPT ![w] =
                   IF processFile(wkpath[w], fs).ok THEN "sendRes" ELSE "sendErr"]
    /\ UNCHANGED << clientVars, cancelled, wg, chanVars, fault, startVars,
                    walkerVars, wkpath, stoppc, ghostVars >>

\* select { case s.results <- entry: ... }: the client receives the entry
WorkerSendRes(w) ==
    /\ Running
    /\ UNCHANGED otherVars
    /\ wkpc[w] = "sendRes"
    /\ IF closed["results"]
       THEN /\ fault' = "send on closed channel"
            /\ UNCHANGED << workerVars, resCount, entries >>
       ELSE /\ resCount' = [resCount EXCEPT ![wkpath[w]] = @ + 1]
            /\ entries' = entries \cup {processFile(wkpath[w], fs).entry}
            /\ wkpc' = [wkpc EXCEPT ![w] = "select"]
            /\ wkpath' = [wkpath EXCEPT ![w] = 0]
            /\ UNCHANGED fault
    /\ UNCHANGED << clientVars, cancelled, wg, chanVars, startVars, walkerVars,
                    stoppc, errCount, walkErrCount, recvCount, lateHandoff,
                    lateDescent, aborted >>

\* a worker that, having sent the error, goes on to send the entry as well
WorkerSendErrFallThrough(w) ==
    /\ Running
    /\ UNCHANGED otherVars
    /\ wkpc[w] = "sendErr"
    /\ IF closed["errors"]
       THEN /\ fault' = "send on closed channel"
            /\ UNCHANGED << workerVars, errCount >>
       ELSE /\ consMode = "both"
            /\ errCount' = [errCount EXCEPT ![wkpath[w]] = @ + 1]
            /\ wkpc' = [wkpc EXCEPT ![w] = "sendRes"]
            /\ UNCHANGED << wkpath, fault >>
    /\ UNCHANGED << clientVars, cancelled, wg, chanVars, startVars, walkerVars,
                    stoppc, resCount, walkErrCount, entries, recvCount,
                    lateHandoff, lateDescent, aborted >>

\* a worker whose error send does not block: with no receiver the error is
\* dropped (a default case in the select)
WorkerSendErrNonBlocking(w) ==
    /\ Running
    /\ UNCHANGED otherVars
    /\ wkpc[w] = "sendErr"
    /\ IF closed["errors"]
       THEN /\ fault' = "send on closed channel"
            /\ UNCHANGED << workerVars, errCount >>
       ELSE /\ errCount' = IF consMode = "both"
                           THEN [errCount EXCEPT ![wkpath[w]] = @ + 1] ELSE errCount
            /\ wkpc' = [wkpc EXCEPT ![w] = "select"]
            /\ wkpath' = [wkpath EXCEPT ![w] = 0]
            /\ UNCHANGED fault
    /\ UNCHANGED << clientVars, cancelled, wg, chanVars, startVars, walkerVars,
                    stoppc, resCount, walkErrCount, entries, recvCount,
                    lateHandoff, lateDescent, aborted >>

\* select { case s.errors <- processing error: ... }: the client receives it
WorkerSendErr(w) ==
    /\ Running
    /\ UNCHANGED otherVars
    /\ wkpc[w] = "sendErr"
    /\ IF closed["errors"]
       THEN /\ fault' = "send on closed channel"
            /\ UNCHANGED << workerVars, errCount >>
       ELSE /\ consMode = "both"
            /\ errCount' = [errCount EXCEPT ![wkpath[w]] = @ + 1]
            /\ wkpc' = [wkpc EXCEPT ![w] = "select"]
            /\ wkpath' = [wkpath EXCEPT ![w] = 0]
            /\ UNCHANGED fault
    /\ UNCHANGED << clientVars, cancelled, wg, chanVars, startVars, walkerVars,
                    stoppc, resCount, walkErrCount, entries, recvCount,
                    lateHandoff, lateDescent, aborted >>

\* select { ... case <-s.ctx.Done(): return } of either inner select: the
\* entry or error in hand is dropped
WorkerSendCancelled(w) ==
    /\ Running
    /\ UNCHANGED otherVars
    /\ wkpc[w] \in {"sendRes", "sendErr"}
    /\ cancelled
    /\ aborted' = aborted \cup {wkpath[w]}
    /\ WorkerReturn(w)
    /\ UNCHANGED << clientVars, cancelled, chanVars, startVars, walkerVars,
                    stoppc, resCount, errCount, walkErrCount, entries,
                    recvCount, lateHandoff, lateDescent >>

\* ------------------------------------------------------------------------
\* Specifications
\* ------------------------------------------------------------------------
\* the steps of the goroutines (everything but the client's calls)
Internal ==
    \/ SpawnWorker
    \/ SpawnWalker
    \/ StartScanWait
    \/ CloseErrors
    \/ CloseResults
    \/ WalkVisit
    \/ WalkPathCancelled
    \/ WalkSendErr
    \/ WalkErrCancelled
    \/ WalkFinish
    \/ \E w \in Workers : Handoff(w)
    \/ \E w \in Workers : WorkerPathsClosed(w)
    \/ \E w \in Workers : WorkerCancelled(w)
    \/ \E w \in Workers : WorkerProcess(w)
    \/ \E w \in Workers : WorkerSendRes(w)
    \/ \E w \in Workers : WorkerSendErr(w)
    \/ \E w \in Workers : WorkerSendCancelled(w)

Next ==
    \/ \E o \in ScanOptsSet : Scan(o)
    \/ \E i \in Stoppers : StopCancel(i)
    \/ \E i \in Stoppers : StopWait(i)
    \/ SpawnWorker
    \/ SpawnWalker
    \/ StartScanWait
    \/ CloseErrors
    \/ CloseResults
    \/ WalkVisit
    \/ WalkPathCancelled
    \/ WalkSendErr
    \/ WalkErrCancelled
    \/ WalkFinish
    \/ \E w \in Workers : Handoff(w)
    \/ \E w \in Workers : WorkerPathsClosed(w)
    \/ \E w \in Workers : WorkerCancelled(w)
    \/ \E w \in Workers : WorkerProcess(w)
    \/ \E w \in Workers : WorkerSendRes(w)
    \/ \E w \in Workers : WorkerSendErr(w)
    \/ \E w \in Workers : WorkerSendCancelled(w)

Spec == Init /\ [][Next]_vars

TypeOK ==
    /\ wg \in 0..workerCount
    /\ wlknode \in 0..WalkEnd
    /\ \A w \in Workers : wkpath[w] \in {0} \cup Files

\* the scan goroutines that have ended
WalkerExited == wlkpc = "done"

WorkersExited == \A w \in Workers : wkpc[w] = "exit"

BothClosed == closed["results"] /\ closed["errors"]

\* ------------------------------------------------------------------------
\* What a complete, uncancelled scan must deliver
\* ------------------------------------------------------------------------
Ancestors(n) == {d \in Dirs : IsUnder(n, d)}

\* pattern p excludes entry n: it matches n, or a directory above n (which
\* the walk then does not enter)
Excludes(p, n) ==
    \/ PatternHits(p, Tree[n].rel)
    \/ \E d \in Ancestors(n) : PatternHits(p, Tree[d].rel)

\* the regular files that match no ignore pattern and do not exceed the cap
Eligible(o) ==
    {n \in Files : /\ Size(n) <= o.MaxFileSize
                   /\ \A i \in 1..Len(o.IgnorePattern) : ~Excludes(o.IgnorePattern[i], n)}

\* the entries whose Lstat or directory listing fails
WalkFailures(f) == f.lstatFail \cup (f.readFail \cap Dirs)

\* ------------------------------------------------------------------------
\* Claims
\* ------------------------------------------------------------------------

\* C1: when Stop() has returned, the walker goroutine and every worker
\* goroutine of the scan have exited, in every interleaving of Stop() with
\* the goroutine Scan() starts.
C1_StopReturnsAfterExit ==
    \A i \in Stoppers : stoppc[i] = "done" => (WalkerExited /\ WorkersExited)

\* C3: in a scan that is never cancelled and in which nothing fails, once
\* the scan is over every eligible file has been delivered exactly once and
\* nothing else has been delivered; during the scan nothing is delivered
\* twice and nothing ineligible is delivered.
C3_EmittedEqualsEligible ==
    (fs = NoFailure /\ ~cancelled /\ scanCalled) =>
        /\ \A n \in Nodes : resCount[n] <= 1
        /\ \A n \in Nodes : resCount[n] = 1 => n \in Eligible(opts)
        /\ {e.Path : e \in entries} = {Tree[n].rel : n \in {m \in Nodes : resCount[m] > 0}}
        /\ sspc = "done" =>
              /\ \A n \in Eligible(opts) : resCount[n] = 1
              /\ {e.Path : e \in entries} = {Tree[n].rel : n \in Eligible(opts)}
              /\ Cardinality(entries) = Cardinality(Eligible(opts))

\* a complete uncancelled scan that delivered something and skipped something
C3_Witness ==
    /\ fs = NoFailure /\ ~cancelled /\ sspc = "done"
    /\ Eligible(opts) # {} /\ Eligible(opts) # Files
    /\ \A n \in Eligible(opts) : resCount[n] = 1

C6_NoHandoffAfterCancel == lateHandoff = {}

\* C7: once Stop() has cancelled the scan, the walker descends into no
\* further directory.
C7_NoDescentAfterCancel == lateDescent = {}

\* the FileEntry the tree prescribes for file n
FullEntry(n) ==
    [Path |-> Tree[n].rel, Size |-> Len(Tree[n].bytes),
     IsBinary |-> (Len(Tree[n].bytes) > 0 /\
                   ThresholdDen * Cardinality({i \in 1..Len(Tree[n].bytes) :
                        ~(IsGraphic(Tree[n].bytes[i]) \/ IsSpace(Tree[n].bytes[i]))
                        \/ Tree[n].bytes[i] = 0}) > ThresholdNum * Len(Tree[n].bytes)),
     IsSelected |-> FALSE, Language |-> <<>>]

\* the workers that hold file n: received, not yet emitted or abandoned
Holding(n) == {w \in Workers : wkpath[w] = n}

\* every receipt of n has led to exactly one emission, save those in hand
OneEmissionPerReceipt(n) ==
    /\ resCount[n] + errCount[n] = recvCount[n] - Cardinality(Holding(n))
    /\ ~(resCount[n] > 0 /\ errCount[n] > 0)

\* C8 as stated: every path a worker received while the scan was not
\* cancelled leads to exactly one emission, an entry or an error.
C8_Original ==
    \A n \in Files \ lateHandoff : OneEmissionPerReceipt(n)

\* C8: a worker emits for a received path at most one of a complete
\* FileEntry or an error, never both; it emits exactly one unless the scan
\* is cancelled before the send is accepted, in which case it returns
\* without emitting; after an emission it is back at the receive.
C8_ExactlyOneUnlessAborted ==
    /\ \A n \in Files \ aborted : OneEmissionPerReceipt(n)
    /\ \A n \in Files : ~(resCount[n] > 0 /\ errCount[n] > 0)
    /\ \A n \in Files : resCount[n] + errCount[n] <= recvCount[n]
    /\ aborted # {} => cancelled
    /\ \A n \in Files : resCount[n] > 0 => FullEntry(n) \in entries
    /\ \A e \in entries : \E n \in Files : e = FullEntry(n)
    /\ \A w \in Workers : wkpath[w] = 0 <=> wkpc[w] \in {"none", "select", "exit"}

\* a worker emitted an error for one path, an entry for another, and is
\* back at the receive, all before any cancellation
C8_Witness ==
    /\ ~cancelled
    /\ \E n \in Files : errCount[n] = 1 /\ resCount[n] = 0
    /\ \E n \in Files : resCount[n] = 1 /\ errCount[n] = 0 /\ FullEntry(n) \in entries
    /\ \E w \in Workers : wkpc[w] = "select"

\* C9: while the client receives from the result stream only and Stop() has
\* not been called, no error is delivered, a worker that reached the send
\* of an error stays there, and neither stream is closed.
C9_State ==
    (consMode = "results" /\ ~cancelled) =>
        /\ \A n \in Nodes : errCount[n] = 0 /\ walkErrCount[n] = 0
        /\ (\E w \in Workers : wkpc[w] = "sendErr") => (~closed["results"] /\ ~closed["errors"])

C9_Step ==
    \A w \in Workers :
        (consMode = "results" /\ wkpc[w] = "sendErr" /\ ~cancelled') => wkpc'[w] = "sendErr"

C9_ErrorSendBlocks == [](C9_State) /\ [][C9_Step]_vars

\* the scan is stuck on the undelivered error: the walk is over, paths is
\* closed, three workers have returned and the fourth waits on its send
C9_Witness ==
    /\ consMode = "results" /\ ~cancelled
    /\ wlkpc = "done"
    /\ Cardinality({w \in Workers : wkpc[w] = "sendErr"}) = 1
    /\ Cardinality({w \in Workers : wkpc[w] = "exit"}) = workerCount - 1
    /\ sspc = "wait"

\* ------------------------------------------------------------------------
\* Liveness: the Go scheduler runs every goroutine that can take a step, and
\* the client takes what its mode says whenever it is offered.  The client's
\* calls of Scan and Stop are under no obligation.
\* ------------------------------------------------------------------------
InitFair == InitScanner(1..FairStops, {"both"}) /\ OthersIdle

FairSpec == InitFair /\ [][Next]_vars /\ WF_vars(Internal)

\* the files a complete, uncancelled scan delivers when parts of the tree
\* fail: eligible, not failing themselves, and under no failing directory
Deliverable(o, f) ==
    {n \in Eligible(o) : /\ n \notin f.lstatFail \cup f.statFail
                         /\ Ancestors(n) \cap WalkFailures(f) = {}}

\* the failing entries the walk reaches
ReachedFailures(o, f) ==
    {n \in WalkFailures(f) :
        \A d \in Ancestors(n) : d \notin WalkFailures(f) /\ ~shouldSkip(d, o)[1]}

\* C2: when Stop() is never called and the client receives from both
\* streams, the scan closes both streams, and a stream is closed only after
\* the walker has finished and all workers have exited.
C2_ClosedOnlyAfterExit ==
    (~cancelled /\ (closed["results"] \/ closed["errors"])) => (WalkerExited /\ WorkersExited)

C2_ScanCompletes ==
    /\ [](C2_ClosedOnlyAfterExit)
    /\ (scanCalled /\ consMode = "both") ~> (cancelled \/ BothClosed)

\* an uncancelled scan ended with both streams closed
C2_Witness ==
    /\ ~cancelled /\ consMode = "both" /\ BothClosed
    /\ WalkerExited /\ WorkersExited
    /\ \E n \in Files : resCount[n] = 1

\* C5: after Scan() and Stop(), both streams are eventually closed.
C5_StopClosesStreams == cancelled ~> BothClosed

\* C10: in an uncancelled scan a traversal error is delivered exactly once,
\* the failing entry yields no FileEntry, the walk goes on with the
\* remaining entries, and the streams are closed in the end.
C10_State ==
    (~cancelled /\ scanCalled) =>
        /\ \A n \in Nodes : walkErrCount[n] <= 1
        /\ \A n \in Nodes : walkErrCount[n] = 1 => n \in ReachedFailures(opts, fs)
        /\ \A n \in WalkFailures(fs) : resCount[n] = 0 /\ recvCount[n] = 0
        /\ (sspc = "done" /\ consMode = "both") =>
              /\ \A n \in ReachedFailures(opts, fs) : walkErrCount[n] = 1
              /\ \A n \in Deliverable(opts, fs) : resCount[n] = 1

C10_WalkErrorNotFatal ==
    /\ [](C10_State)
    /\ (scanCalled /\ consMode = "both" /\ WalkFailures(fs) # {}) ~> (cancelled \/ BothClosed)

\* a scan with a traversal error ran to its end, and a file that the walk
\* visits after the failing entry was delivered
C10_Witness ==
    /\ ~cancelled /\ BothClosed /\ sspc = "done"
    /\ \E n \in WalkFailures(fs) :
          /\ walkErrCount[n] = 1
          /\ \E m \in Files : m > n /\ resCount[m] = 1

\* ========================================================================
\* New(opts...) and the options of options.go, followed by one Scan call
\* ========================================================================
\* number of Option values passed to one New call
MaxOptions == 2

\* the process's working directory, which filepath.Abs prepends
Cwd == <<"/", "w">>

\* filepath.Abs(dir) for the directories used here
Abs(dir) ==
    IF dir # <<>> /\ Head(dir) = "/" THEN dir
    ELSE IF dir = <<".">> THEN Cwd
    ELSE Cwd \o <<"/">> \o dir

\* strings.TrimSpace(pattern) != "" for patterns over ASCII
NotBlank(pattern) == \E i \in 1..Len(pattern) : pattern[i] \notin {" ", "\t", "\n"}

RECURSIVE AppendNotBlank(_, _)
\* the loop of WithIgnorePattern
AppendNotBlank(list, patterns) ==
    IF patterns = <<>> THEN list
    ELSE AppendNotBlank(IF NotBlank(Head(patterns)) THEN Append(list, Head(patterns)) ELSE list,
                        Tail(patterns))

\* an Option that validates nothing
ApplyOptionUnchecked(opt, o) ==
    CASE opt.kind = "RootDir" ->
            [err |-> FALSE,
             opts |-> [o EXCEPT !.RootDir = Abs(IF opt.dir = <<>> THEN <<".">> ELSE opt.dir)]]
      [] opt.kind = "IgnorePattern" ->
            [err |-> FALSE,
             opts |-> [o EXCEPT !.IgnorePattern = AppendNotBlank(@, opt.patterns)]]
      [] opt.kind = "MaxFileSize" ->
            [err |-> FALSE, opts |-> [o EXCEPT !.MaxFileSize = opt.size]]
      [] opt.kind = "MaxFiles" ->
            [err |-> FALSE, opts |-> [o EXCEPT !.MaxFiles = opt.count]]

\* opt(s) for the Options WithRootDir, WithIgnorePattern, WithMaxFileSize and
\* WithMaxFiles: an error, or the changed s.opts
ApplyOption(opt, o) ==
    CASE opt.kind = "RootDir" ->
            [err |-> FALSE,
             opts |-> [o EXCEPT !.RootDir = Abs(IF opt.dir = <<>> THEN <<".">> ELSE opt.dir)]]
      [] opt.kind = "IgnorePattern" ->
            [err |-> FALSE,
             opts |-> [o EXCEPT !.IgnorePattern = AppendNotBlank(@, opt.patterns)]]
      [] opt.kind = "MaxFileSize" ->
            IF opt.size < 0 THEN [err |-> TRUE, opts |-> o]
            ELSE [err |-> FALSE, opts |-> [o EXCEPT !.MaxFileSize = opt.size]]
      [] opt.kind = "MaxFiles" ->
            IF opt.count < 0 THEN [err |-> TRUE, opts |-> o]
            ELSE [err |-> FALSE, opts |-> [o EXCEPT !.MaxFiles = opt.count]]

\* the Option values a client passes to New
OptionSet ==
    { [kind |-> "RootDir", dir |-> <<>>],
      [kind |-> "RootDir", dir |-> <<"r">>],
      [kind |-> "IgnorePattern", patterns |-> << <<"*", ".", "b">> >>],
      [kind |-> "IgnorePattern", patterns |-> << <<" ">>, <<"d", "/", "*">> >>],
      [kind |-> "MaxFileSize", size |-> 0 - 1],
      [kind |-> "MaxFileSize", size |-> 0],
      [kind |-> "MaxFileSize", size |-> 5],
      [kind |-> "MaxFiles", count |-> 0 - 1],
      [kind |-> "MaxFiles", count |-> 0],
      [kind |-> "MaxFiles", count |-> 3] }

OptionLists == UNION {[1..k -> OptionSet] : k \in 0..MaxOptions}

\* the ScanOptions passed to the Scan call that follows; sizes and counts
\* are not negative (spec.md, data model)
ScanArgs ==
    [RootDir : {<<>>, <<"s">>}, MaxFileSize : {0, 7},
     IgnorePattern : {<<>>, << <<"e">> >>}, MaxFiles : {0, 2}]

\* a fresh scanner struct with nothing running and no failing files
ScannerFresh == InitScanner({}, {"both"}) /\ fs = NoFailure

\* New has built the struct literal and is about to apply the options
InitNew ==
    /\ ScannerFresh
    /\ \E g \in OptionLists, a \in ScanArgs :
          ctor = [pc |-> "apply", pending |-> g, given |-> g, built |-> NewOpts, arg |-> a]
    /\ SkipIdle /\ BinIdle /\ ChunkerIdle /\ WriterIdle /\ AppIdle

newFrame == << fs, consMode, scanCalled, cancelled, wg, closed, closeCount,
               fault, sspc, ssi, wlkpc, wlknode, wkpc, wkpath, stoppc,
               resCount, errCount, walkErrCount, entries, recvCount,
               lateHandoff, lateDescent, aborted, skipProbe, binProbe, chunker,
               writer, app >>

\* one iteration of New's loop: opt(s), and return nil, err when it fails
NewApply ==
    /\ ctor.pc = "apply"
    /\ ctor.pending # <<>>
    /\ LET r == ApplyOption(Head(ctor.pending), opts)
       IN  IF r.err
           THEN /\ ctor' = [ctor EXCEPT !.pc = "failed"]
                /\ UNCHANGED opts
           ELSE /\ ctor' = [ctor EXCEPT !.pending = Tail(@)]
                /\ opts' = r.opts
    /\ UNCHANGED newFrame

\* return s, nil
NewReturn ==
    /\ ctor.pc = "apply"
    /\ ctor.pending = <<>>
    /\ ctor' = [ctor EXCEPT !.pc = "built", !.built = opts]
    /\ UNCHANGED << opts, newFrame >>

\* the client calls Scan on the Scanner that New returned
ScanBuilt ==
    /\ ctor.pc = "built"
    /\ Scan(ctor.arg)

NextNew ==
    \/ NewApply
    \/ NewReturn
    \/ ScanBuilt

SpecNew == InitNew /\ [][NextNew]_vars

\* C11: after Scan(o) every effective option is o's value where that value
\* is non-zero / non-empty and the construction-time value otherwise.
C11_ScanOverridesNonZero ==
    (ctor.pc = "built" /\ scanCalled) =>
        /\ opts.RootDir = IF ctor.arg.RootDir # <<>> THEN ctor.arg.RootDir
                          ELSE ctor.built.RootDir
        /\ opts.MaxFileSize = IF ctor.arg.MaxFileSize # 0 THEN ctor.arg.MaxFileSize
                              ELSE ctor.built.MaxFileSize
        /\ opts.IgnorePattern = IF ctor.arg.IgnorePattern # <<>> THEN ctor.arg.IgnorePattern
                                ELSE ctor.built.IgnorePattern
        /\ opts.MaxFiles = IF ctor.arg.MaxFiles # 0 THEN ctor.arg.MaxFiles
                           ELSE ctor.built.MaxFiles

\* Scan with maxFileSize 0 and no patterns on a Scanner configured with a
\* cap of 5 and a pattern: both stay in force
C11_Witness ==
    /\ ctor.pc = "built" /\ scanCalled
    /\ ctor.arg.MaxFileSize = 0 /\ ctor.arg.IgnorePattern = <<>>
    /\ ctor.built.MaxFileSize = 5 /\ ctor.built.IgnorePattern # <<>>
    /\ opts.MaxFileSize = 5 /\ opts.IgnorePattern = ctor.built.IgnorePattern

\* the options given to New include a negative size or count
GivenNegative ==
    \E i \in 1..Len(ctor.given) :
        \/ ctor.given[i].kind = "MaxFileSize" /\ ctor.given[i].size < 0
        \/ ctor.given[i].kind = "MaxFiles" /\ ctor.given[i].count < 0

\* C18: New fails exactly when a negative maxFileSize or maxFiles was given
\* (0 is accepted); a failed New leaves no Scanner, so no scan goroutine
\* runs and no channel is touched.
C18_NegativeLimitsRejected ==
    /\ ctor.pc = "built" => ~GivenNegative
    /\ ctor.pc = "failed" => GivenNegative
    /\ GivenNegative =>
          /\ ~scanCalled /\ sspc = "idle" /\ wlkpc = "idle" /\ wg = 0
          /\ \A w \in Workers : wkpc[w] = "none"
          /\ \A c \in Channels : closeCount[c] = 0

\* New failed on its second option, a negative count, after accepting a 0
C18_Witness ==
    /\ ctor.pc = "failed"
    /\ Len(ctor.given) = 2
    /\ ctor.given[1] = [kind |-> "MaxFileSize", size |-> 0]
    /\ ctor.given[2] = [kind |-> "MaxFiles", count |-> 0 - 1]
    /\ ~scanCalled

\* ========================================================================
\* The walk's filter on a deeper tree: filepath.Walk calling shouldSkip with
\* a worker always ready to take the path
\* ========================================================================
\* size a directory reports (its entry table, not its contents)
DirSize == 9

DeepTree ==
    << [rel |-> <<".">>, parent |-> 0, isDir |-> TRUE, size |-> DirSize],
       [rel |-> <<".", "g", "i", "t">>, parent |-> 1, isDir |-> TRUE, size |-> DirSize],
       [rel |-> <<".", "g", "i", "t", "/", "c">>, parent |-> 2, isDir |-> FALSE, size |-> 2],
       [rel |-> <<"a">>, parent |-> 1, isDir |-> FALSE, size |-> 4],
       [rel |-> <<"d">>, parent |-> 1, isDir |-> TRUE, size |-> DirSize],
       [rel |-> <<"d", "/", "x">>, parent |-> 5, isDir |-> TRUE, size |-> DirSize],
       [rel |-> <<"d", "/", "x", "/", "y">>, parent |-> 6, isDir |-> FALSE, size |-> 2],
       [rel |-> <<"d", "/", "z">>, parent |-> 5, isDir |-> FALSE, size |-> 5],
       [rel |-> <<"d", "d">>, parent |-> 1, isDir |-> FALSE, size |-> 3],
       [rel |-> <<"s">>, parent |-> 1, isDir |-> TRUE, size |-> DirSize],
       [rel |-> <<"s", "/", ".", "g", "i", "t">>, parent |-> 10, isDir |-> TRUE, size |-> DirSize],
       [rel |-> <<"s", "/", ".", "g", "i", "t", "/", "c">>, parent |-> 11, isDir |-> FALSE, size |-> 1],
       [rel |-> <<"s", "/", "d">>, parent |-> 10, isDir |-> TRUE, size |-> DirSize],
       [rel |-> <<"s", "/", "d", "/", "f">>, parent |-> 13, isDir |-> FALSE, size |-> 6] >>

DeepNodes == 1..Len(DeepTree)

DeepEnd == Len(DeepTree) + 1

RECURSIVE DeepUnder(_, _)
\* n lies strictly beneath directory d of DeepTree
DeepUnder(n, d) ==
    IF n = 0 \/ DeepTree[n].parent = 0 THEN FALSE
    ELSE DeepTree[n].parent = d \/ DeepUnder(DeepTree[n].parent, d)

\* where filepath.Walk goes on after SkipDir for directory n
DeepAfter(n) ==
    LET later == {m \in DeepNodes : m > n /\ ~DeepUnder(m, n)}
    IN  IF later = {} THEN DeepEnd
        ELSE CHOOSE m \in later : \A k \in later : m <= k

GitPattern == <<".", "g", "i", "t">>

DirWildcard == <<"d", "/", "*">>

\* the effective options of the walks
SkipOptsSet ==
    [RootDir : {<<".">>},
     MaxFileSize : {0, 4, DefaultMaxFileSize},
     IgnorePattern : {<<>>, <<DirWildcard>>, <<GitPattern>>, <<GitPattern, DirWildcard>>, << <<"s">> >>},
     MaxFiles : {0}]

InitSkip ==
    /\ ScannerFresh
    /\ \E o \in SkipOptsSet :
          skipProbe = [kind |-> "walk", o |-> o, node |-> 1, sent |-> {},
                       res |-> [n \in {} |-> <<FALSE, FALSE>>]]
    /\ CtorIdle /\ BinIdle /\ ChunkerIdle /\ WriterIdle /\ AppIdle

\* one call of the walk function: shouldSkip, SkipDir for a skipped
\* directory, and the path of a file that is not skipped handed to a worker
SkipVisit ==
    /\ skipProbe.kind = "walk"
    /\ skipProbe.node \in DeepNodes
    /\ LET n == skipProbe.node
           t == DeepTree[n]
           r == shouldSkipInfo(t.rel, t.isDir, t.size, skipProbe.o)
       IN  skipProbe' =
             [skipProbe EXCEPT
                !.res  = [m \in DOMAIN @ \cup {n} |-> IF m = n THEN r ELSE @[m]],
                !.sent = IF ~r[1] /\ ~t.isDir THEN @ \cup {n} ELSE @,
                !.node = IF r[1] /\ t.isDir /\ r[2] THEN DeepAfter(n) ELSE n + 1]
    /\ UNCHANGED << scannerVars, ctor, binProbe, chunker, writer, app >>

NextSkip == SkipVisit

SpecSkip == InitSkip /\ [][NextSkip]_vars

SkipWalkDone == skipProbe.kind = "walk" /\ skipProbe.node = DeepEnd

\* some pattern of o hits the relative path of node n
DeepPatternHit(n, o) ==
    \E i \in 1..Len(o.IgnorePattern) : PatternHits(o.IgnorePattern[i], DeepTree[n].rel)

\* C12: the size test comes first and applies to non-directories only: a
\* file is skipped for size exactly when its size is strictly greater than
\* maxFileSize, whatever the patterns say, and a directory is never skipped
\* for its size.
C12_SizeFilterFilesOnly ==
    skipProbe.kind = "walk" =>
        \A n \in DOMAIN skipProbe.res :
            LET t == DeepTree[n]
                o == skipProbe.o
            IN  /\ (~t.isDir /\ t.size > o.MaxFileSize) =>
                       /\ skipProbe.res[n] = <<TRUE, FALSE>>
                       /\ n \notin skipProbe.sent
                /\ (~t.isDir /\ t.size <= o.MaxFileSize /\ ~DeepPatternHit(n, o)) =>
                       skipProbe.res[n] = <<FALSE, FALSE>>
                /\ (t.isDir /\ ~DeepPatternHit(n, o)) =>
                       skipProbe.res[n] = <<FALSE, FALSE>>

\* cap 4, no patterns: the file of 4 bytes is handed on, the file of 5 bytes
\* is not, and the directories (9 > 4) were entered down to d/x/y
C12_Witness ==
    /\ SkipWalkDone
    /\ skipProbe.o.MaxFileSize = 4 /\ skipProbe.o.IgnorePattern = <<>>
    /\ 4 \in skipProbe.sent /\ 8 \notin skipProbe.sent /\ 7 \in skipProbe.sent
    /\ DeepTree[5].size > 4 /\ skipProbe.res[5] = <<FALSE, FALSE>>

\* the directory d of DeepTree
DeepD == CHOOSE n \in DeepNodes : DeepTree[n].rel = <<"d">>

\* C13: with the pattern d/* no path beneath d, at any depth, is handed on
\* for emission, and the files outside d are filtered as without it.
C13_DirWildcardExcludesSubtree ==
    (skipProbe.kind = "walk" /\ \E i \in 1..Len(skipProbe.o.IgnorePattern) :
                                    skipProbe.o.IgnorePattern[i] = DirWildcard) =>
        /\ \A n \in skipProbe.sent : ~DeepUnder(n, DeepD)
        /\ \A n \in DOMAIN skipProbe.res :
              DeepUnder(n, DeepD) => skipProbe.res[n] = <<TRUE, DeepTree[n].isDir>>
        /\ (SkipWalkDone /\ skipProbe.o.IgnorePattern = <<DirWildcard>>) =>
              \A n \in DeepNodes :
                  (~DeepTree[n].isDir /\ ~DeepUnder(n, DeepD)) =>
                      (n \in skipProbe.sent <=> DeepTree[n].size <= skipProbe.o.MaxFileSize)

\* pattern d/* alone under the default cap: d was entered, d/x cut off,
\* d/z skipped, and dd and s/d/f outside d handed on
C13_Witness ==
    /\ SkipWalkDone
    /\ skipProbe.o.IgnorePattern = <<DirWildcard>>
    /\ skipProbe.o.MaxFileSize = DefaultMaxFileSize
    /\ 6 \in DOMAIN skipProbe.res /\ 7 \notin DOMAIN skipProbe.res
    /\ 8 \in DOMAIN skipProbe.res /\ 8 \notin skipProbe.sent
    /\ {9, 14} \subseteq skipProbe.sent

\* strings.Contains(s, sub)
Contains(s, sub) ==
    \E i \in 0..(Len(s) - Len(sub)) : SubSeq(s, i + 1, i + Len(sub)) = sub

\* C14: a pattern also matches by substring containment: with the pattern
\* .git the directory s/.git is excluded like .git at the root, its subtree
\* is not entered and nothing whose path contains .git is handed on.
C14_SubstringExcludes ==
    (skipProbe.kind = "walk" /\ skipProbe.o.IgnorePattern = <<GitPattern>>) =>
        /\ \A n \in skipProbe.sent : ~Contains(DeepTree[n].rel, GitPattern)
        /\ \A n \in DOMAIN skipProbe.res :
              Contains(DeepTree[n].rel, GitPattern) =>
                  /\ skipProbe.res[n] = <<TRUE, DeepTree[n].isDir>>
                  /\ \A m \in DOMAIN skipProbe.res : ~DeepUnder(m, n)

\* the path is not rooted
IsRelative(path) == path # <<>> /\ path[1] # Separator

\* C15: within one scan no path is emitted in two FileEntry values, and the
\* path of every emitted entry is relative to rootDir: it is not rooted and,
\* joined to rootDir, names a file the walk visited.
C15_UniqueRelativePaths ==
    /\ \A m, n \in Nodes : Tree[m].rel = Tree[n].rel => m = n
    /\ \A n \in Nodes : resCount[n] <= 1
    /\ \A e \in entries :
          /\ IsRelative(e.Path)
          /\ \E n \in Files :
                /\ resCount[n] = 1
                /\ e.Path = Tree[n].rel
                /\ WalkPath(opts.RootDir, n) =
                      (IF opts.RootDir = <<".">> THEN e.Path
                       ELSE opts.RootDir \o <<Separator>> \o e.Path)

\* a scan of an absolute root has run to its end and emitted d/b and e/c
\* once each
C15_Witness ==
    /\ opts.RootDir = <<"/", "t">>
    /\ BothClosed
    /\ {e.Path : e \in entries} = {<<"d", "/", "b">>, <<"e", "/", "c">>}
    /\ \A n \in Files : resCount[n] = IF Tree[n].rel = <<"a">> THEN 0 ELSE 1

\* ========================================================================
\* isBinaryFile on files of chosen contents
\* ========================================================================
\* longest run of bytes that follows the first binaryCheckSize bytes
MaxTail == 88

\* lengths of the part of the file that the sample can reach
HeadLens == {0, 1, 4, 10, 20, binaryCheckSize - 1, binaryCheckSize}

\* how many bytes of that part are not printable
BadCounts == {0, 1, 3, 4, 6, 7, 153, 154, binaryCheckSize}

\* a file: k times the byte bad, then the byte good up to length h, then
\* tl times the byte tb
FileBytes(h, k, bad, good, tl, tb) ==
    [i \in 1..(h + tl) |-> IF i <= k THEN bad ELSE IF i <= h THEN good ELSE tb]

\* the runs that may follow a head of binaryCheckSize bytes: <<length, byte>>
Tails == {<<0, 0>>, <<1, 0>>, <<MaxTail, 0>>, <<MaxTail, 65>>}

InitClassify ==
    /\ ScannerFresh
    /\ \E h \in HeadLens, b \in {0, 127}, g \in {65, 133} :
          \E k \in {c \in BadCounts : c <= h},
             t1, t2 \in (IF h = binaryCheckSize THEN Tails ELSE {<<0, 0>>}) :
              binProbe = [pc |-> "open",
                          file  |-> FileBytes(h, k, b, g, t1[1], t1[2]),
                          other |-> FileBytes(h, k, b, g, t2[1], t2[2]),
                          isBinary |-> FALSE, otherIsBinary |-> FALSE]
    /\ CtorIdle /\ SkipIdle /\ ChunkerIdle /\ WriterIdle /\ AppIdle

\* isBinaryFile(path) on the first file
ClassifyFile ==
    /\ binProbe.pc = "open"
    /\ binProbe' = [binProbe EXCEPT !.pc = "one", !.isBinary = isBinarySample(binProbe.file)]
    /\ UNCHANGED << scannerVars, ctor, skipProbe, chunker, writer, app >>

\* isBinaryFile(path) on the second file
ClassifyOther ==
    /\ binProbe.pc = "one"
    /\ binProbe' = [binProbe EXCEPT !.pc = "both",
                                    !.otherIsBinary = isBinarySample(binProbe.other)]
    /\ UNCHANGED << scannerVars, ctor, skipProbe, chunker, writer, app >>

NextClassify ==
    \/ ClassifyFile
    \/ ClassifyOther

SpecClassify == InitClassify /\ [][NextClassify]_vars

\* the bytes that are zero or neither graphic nor white space, read as
\* Latin-1 code points
NonPrintableBytes == (0..8) \cup (14..31) \cup (127..132) \cup (134..159) \cup {173}

\* length of the sample of a file
SampleLen(bytes) == IF Len(bytes) <= 512 THEN Len(bytes) ELSE 512

\* non-printable bytes among the first SampleLen bytes
SampleBad(bytes) ==
    Cardinality({i \in 1..SampleLen(bytes) : bytes[i] \in NonPrintableBytes})

\* C16: the classifier looks at the first min(512, length) bytes; an empty
\* file is text; otherwise the file is binary exactly when its non-printable
\* bytes are strictly more than 30% of the sample (10 * bad > 3 * sample):
\* exactly 30% is text, four zero bytes out of four are binary.
C16_BinaryIffOverThreshold ==
    binProbe.pc \in {"one", "both"} =>
        LET f == binProbe.file
        IN  /\ binProbe.isBinary = (Len(f) > 0 /\ 10 * SampleBad(f) > 3 * SampleLen(f))
            /\ Len(f) = 0 => ~binProbe.isBinary
            /\ (Len(f) = 10 /\ SampleBad(f) = 3) => ~binProbe.isBinary
            /\ f = <<0, 0, 0, 0>> => binProbe.isBinary

\* a file of 10 bytes with exactly 3 non-printable ones was classified text
C16_Witness ==
    /\ binProbe.pc = "one"
    /\ Len(binProbe.file) = 10
    /\ SampleBad(binProbe.file) = 3
    /\ ~binProbe.isBinary

\* C17: the classification depends on the first 512 bytes only: two files
\* that agree on them are classified alike, whatever follows.
C17_OnlyFirstBytesCount ==
    binProbe.pc = "both" =>
        (SubSeq(binProbe.file, 1, SampleLen(binProbe.file))
            = SubSeq(binProbe.other, 1, SampleLen(binProbe.other))
         => binProbe.isBinary = binProbe.otherIsBinary)

\* 153 non-printable bytes among the first 512 (under 30%): text, with
\* nothing after them and with 88 zero bytes after them
C17_Witness ==
    /\ binProbe.pc = "both"
    /\ Len(binProbe.file) = 512
    /\ Len(binProbe.other) = 512 + MaxTail
    /\ SampleBad(binProbe.file) = 153
    /\ \A i \in 513..Len(binProbe.other) : binProbe.other[i] = 0
    /\ ~binProbe.isBinary /\ ~binProbe.otherIsBinary

\* ========================================================================
\* Chunker.Chunk on a byte slice: the slice's backing array, the windows cut
\* from it, and the chunks as slices of that array or as arrays of their own
\* ========================================================================
\* longest content drawn from ChunkAlphabet
MaxContentLen == 6

\* largest ChunkerOptions.MaxSize drawn
MaxSizeBound == 3

\* largest ChunkerOptions.Overlap drawn
MaxOverlapBound == 2

\* the bytes of the drawn contents: a letter, a blank and a line feed
ChunkAlphabet == {97, 32, 10}

\* the white space bytes.TrimSpace and unicode.IsSpace know in ASCII
AsciiSpace == {9, 10, 11, 12, 13, 32}

\* the content of TestChunker, chunked there with MaxSize 20 and Overlap 5
TestContent ==
    <<116, 104, 105, 115, 32, 105, 115, 32, 97, 32, 108, 111, 110, 103, 101, 114,
       32, 99, 111, 110, 116, 101, 110, 116, 32, 116, 104, 97, 116, 32, 115, 104,
       111, 117, 108, 100, 32, 98, 101, 32, 115, 112, 108, 105, 116, 32, 105, 110,
       116, 111, 32, 109, 117, 108, 116, 105, 112, 108, 101, 32, 99, 104, 117, 110,
       107, 115 >>

\* longest content chunked with a MaxSize below 1 or a negative Overlap
MaxEdgeLen == 2

\* short contents paired with options outside their usual range
EdgeInputs ==
    { [content |-> c, MaxSize |-> m, Overlap |-> v] :
        c \in UNION {[1..k -> ChunkAlphabet] : k \in 0..MaxEdgeLen},
        m \in {0 - 1, 0} \cup (1..MaxSizeBound), v \in {0 - 1} \cup (0..MaxOverlapBound) }

\* contents of 70 bytes: letters only, a blank after every six letters, and
\* TestContent with four more bytes
SeventyBytes ==
    { [i \in 1..70 |-> 97],
      [i \in 1..70 |-> IF i % 7 = 0 THEN 32 ELSE 97],
      TestContent \o <<32, 97, 97, 10>> }

\* contents paired with ChunkerOptions
ChunkInputs ==
    { [content |-> c, MaxSize |-> m, Overlap |-> v] :
        c \in UNION {[1..k -> ChunkAlphabet] : k \in 0..MaxContentLen},
        m \in 1..MaxSizeBound, v \in 0..MaxOverlapBound }
    \cup { [content |-> TestContent, MaxSize |-> 20, Overlap |-> 5] }
    \cup { [content |-> c, MaxSize |-> 20, Overlap |-> 5] : c \in SeventyBytes }
    \cup EdgeInputs

\* the fields of ChunkerOptions that Chunk does not read: <<MaxTokens,
\* PreserveML>>, as small as 1 and as createChunks sets them
TokenOpts == { <<1, FALSE>>, <<2000, TRUE>> }

\* a count of the bytes that are not white space
countTokensPerByte(text) ==
    Cardinality({i \in 1..Len(text) : text[i] \notin AsciiSpace})

\* c.countTokens(text): the runs of bytes that are not white space
countTokens(text) ==
    Cardinality({i \in 1..Len(text) :
                    /\ text[i] \notin AsciiSpace
                    /\ (i = 1 \/ text[i - 1] \in AsciiSpace)})

\* bytes.TrimSpace(m[lo:hi]) as offsets into the array m: nil when nothing
\* but white space is left, the sub-slice m[a:b] otherwise
TrimSpace(m, lo, hi) ==
    LET keep == {i \in lo..(hi - 1) : m[i + 1] \notin AsciiSpace}
    IN  IF keep = {} THEN [isNil |-> TRUE, a |-> lo, b |-> lo]
        ELSE [isNil |-> FALSE,
              a |-> CHOOSE i \in keep : \A j \in keep : i <= j,
              b |-> (CHOOSE i \in keep : \A j \in keep : i >= j) + 1]

\* types.Chunk{Content: append(bytes.TrimSpace(m[lo:hi]), '\n'),
\* TokenCount: c.countTokens(string(m[lo:hi]))} on the array m of capacity
\* Len(m): append stores the line feed in m itself when the trimmed slice
\* ends before the array does, and copies to a new array otherwise.  The
\* result is the array afterwards and the chunk; a chunk that shares m is
\* the slice m[lo:hi], one that does not holds its bytes in own.
MakeChunk(m, lo, hi) ==
    LET t      == TrimSpace(m, lo, hi)
        shares == ~t.isNil /\ t.b < Len(m)
        after  == IF shares THEN [m EXCEPT ![t.b + 1] = 10] ELSE m
        body   == IF t.isNil THEN <<10>> ELSE Append(SubSeq(m, t.a + 1, t.b), 10)
    IN  [mem   |-> after,
         chunk |-> [from |-> lo, to |-> hi, shared |-> shares,
                    lo |-> t.a, hi |-> IF t.isNil THEN t.a ELSE t.b + 1,
                    own |-> IF shares THEN <<>> ELSE body,
                    made |-> body,
                    StartLine |-> 1, EndLine |-> 1,
                    TokenCount |-> countTokens(SubSeq(after, lo + 1, hi))]]

\* the caller holds content (len bytes of the array mem) and calls
\* NewChunker(opts).Chunk(content); spare is the capacity beyond len.  run
\* counts the calls made on these bytes and prev keeps what the call
\* before returned.
InitChunk ==
    /\ ScannerFresh
    /\ \E in \in ChunkInputs, spare \in {0, 1}, tk \in TokenOpts :
          chunker = [pc |-> "call",
                     orig |-> in.content,
                     mem |-> in.content \o [i \in 1..spare |-> 0],
                     len |-> Len(in.content),
                     MaxSize |-> in.MaxSize, Overlap |-> in.Overlap,
                     MaxTokens |-> tk[1], PreserveML |-> tk[2],
                     pos |-> 0, chunks |-> <<>>, err |-> "none",
                     run |-> 1, prev |-> <<>>]
    /\ CtorIdle /\ SkipIdle /\ BinIdle /\ WriterIdle /\ AppIdle

\* a Chunk whose one-chunk case needs content shorter than MaxSize
ChunkCallStrict ==
    /\ chunker.pc = "call"
    /\ IF chunker.len = 0
       THEN chunker' = [chunker EXCEPT !.pc = "done", !.err = "nil"]
       ELSE IF chunker.MaxSize > 0 /\ chunker.len < chunker.MaxSize
       THEN LET r == MakeChunk(chunker.mem, 0, chunker.len)
            IN  chunker' = [chunker EXCEPT !.pc = "done", !.err = "nil", !.mem = r.mem,
                                           !.chunks = <<r.chunk>>]
       ELSE chunker' = [chunker EXCEPT !.pc = "loop"]
    /\ UNCHANGED << scannerVars, ctor, skipProbe, binProbe, writer, app >>

\* a Chunk without the test for empty content
ChunkCallNoEmptyCheck ==
    /\ chunker.pc = "call"
    /\ IF FALSE
       THEN chunker' = [chunker EXCEPT !.pc = "done", !.err = "nil"]
       ELSE IF chunker.MaxSize > 0 /\ chunker.len <= chunker.MaxSize
       THEN LET r == MakeChunk(chunker.mem, 0, chunker.len)
            IN  chunker' = [chunker EXCEPT !.pc = "done", !.err = "nil", !.mem = r.mem,
                                           !.chunks = <<r.chunk>>]
       ELSE chunker' = [chunker EXCEPT !.pc = "loop"]
    /\ UNCHANGED << scannerVars, ctor, skipProbe, binProbe, writer, app >>

\* Chunk up to the loop: nil for empty content, one chunk for content that
\* fits MaxSize
ChunkCall ==
    /\ chunker.pc = "call"
    /\ IF chunker.len = 0
       THEN chunker' = [chunker EXCEPT !.pc = "done", !.err = "nil"]
       ELSE IF chunker.MaxSize > 0 /\ chunker.len <= chunker.MaxSize
       THEN LET r == MakeChunk(chunker.mem, 0, chunker.len)
            IN  chunker' = [chunker EXCEPT !.pc = "done", !.err = "nil", !.mem = r.mem,
                                           !.chunks = <<r.chunk>>]
       ELSE chunker' = [chunker EXCEPT !.pc = "loop"]
    /\ UNCHANGED << scannerVars, ctor, skipProbe, binProbe, writer, app >>

\* a loop that breaks without the final chunk
ChunkLoopNoFinal ==
    /\ chunker.pc = "loop"
    /\ chunker.pos < chunker.len
    /\ LET pos       == chunker.pos
           chunkSize == IF pos + chunker.MaxSize > chunker.len
                        THEN chunker.len - pos ELSE chunker.MaxSize
       IN  IF chunkSize < 0
           THEN chunker' = [chunker EXCEPT !.pc = "panic"]
           ELSE LET r       == MakeChunk(chunker.mem, pos, pos + chunkSize)
                    advance == IF chunkSize - chunker.Overlap < 1 THEN 1
                               ELSE chunkSize - chunker.Overlap
                    next    == pos + advance
                IN  IF next < chunker.len /\ chunker.len - next <= chunker.Overlap
                    THEN LET f == MakeChunk(r.mem, next, chunker.len)
                         IN  chunker' =
                               [chunker EXCEPT !.pc = "done", !.err = "nil",
                                               !.pos = next, !.mem = f.mem,
                                               !.chunks = Append(@, r.chunk)]
                    ELSE chunker' =
                           [chunker EXCEPT !.pos = next, !.mem = r.mem,
                                           !.chunks = Append(@, r.chunk)]
    /\ UNCHANGED << scannerVars, ctor, skipProbe, binProbe, writer, app >>

\* a loop that advances by the whole window
ChunkLoopNoOverlap ==
    /\ chunker.pc = "loop"
    /\ chunker.pos < chunker.len
    /\ LET pos       == chunker.pos
           chunkSize == IF pos + chunker.MaxSize > chunker.len
                        THEN chunker.len - pos ELSE chunker.MaxSize
       IN  IF chunkSize < 0
           THEN chunker' = [chunker EXCEPT !.pc = "panic"]
           ELSE LET r       == MakeChunk(chunker.mem, pos, pos + chunkSize)
                    advance == IF chunkSize - chunker.Overlap < 1 THEN 1
                               ELSE chunkSize
                    next    == pos + advance
                IN  IF next < chunker.len /\ chunker.len - next <= chunker.Overlap
                    THEN LET f == MakeChunk(r.mem, next, chunker.len)
                         IN  chunker' =
                               [chunker EXCEPT !.pc = "done", !.err = "nil",
                                               !.pos = next, !.mem = f.mem,
                                               !.chunks = @ \o <<r.chunk, f.chunk>>]
                    ELSE chunker' =
                           [chunker EXCEPT !.pos = next, !.mem = r.mem,
                                           !.chunks = Append(@, r.chunk)]
    /\ UNCHANGED << scannerVars, ctor, skipProbe, binProbe, writer, app >>

\* a loop that advances by chunkSize - Overlap, whatever its sign
ChunkLoopNoFloor ==
    /\ chunker.pc = "loop"
    /\ chunker.pos < chunker.len
    /\ LET pos       == chunker.pos
           chunkSize == IF pos + chunker.MaxSize > chunker.len
                        THEN chunker.len - pos ELSE chunker.MaxSize
       IN  IF chunkSize < 0
           THEN chunker' = [chunker EXCEPT !.pc = "panic"]
           ELSE LET r       == MakeChunk(chunker.mem, pos, pos + chunkSize)
                    advance == chunkSize - chunker.Overlap
                    next    == pos + advance
                IN  IF next < chunker.len /\ chunker.len - next <= chunker.Overlap
                    THEN LET f == MakeChunk(r.mem, next, chunker.len)
                         IN  chunker' =
                               [chunker EXCEPT !.pc = "done", !.err = "nil",
                                               !.pos = next, !.mem = f.mem,
                                               !.chunks = @ \o <<r.chunk, f.chunk>>]
                    ELSE chunker' =
                           [chunker EXCEPT !.pos = next, !.mem = r.mem,
                                           !.chunks = Append(@, r.chunk)]
    /\ UNCHANGED << scannerVars, ctor, skipProbe, binProbe, writer, app >>

\* a loop that stops at the first chunk holding more than MaxTokens tokens
ChunkLoopTokenLimited ==
    /\ chunker.pc = "loop"
    /\ chunker.pos < chunker.len
    /\ LET pos       == chunker.pos
           chunkSize == IF pos + chunker.MaxSize > chunker.len
                        THEN chunker.len - pos ELSE chunker.MaxSize
       IN  IF chunkSize < 0
           THEN chunker' = [chunker EXCEPT !.pc = "panic"]
           ELSE LET r       == MakeChunk(chunker.mem, pos, pos + chunkSize)
                    advance == IF chunkSize - chunker.Overlap < 1 THEN 1
                               ELSE chunkSize - chunker.Overlap
                    next    == pos + advance
                IN  IF r.chunk.TokenCount > chunker.MaxTokens
                    THEN chunker' = [chunker EXCEPT !.pc = "done", !.err = "nil", !.mem = r.mem,
                                                    !.chunks = Append(@, r.chunk)]
                    ELSE IF next < chunker.len /\ chunker.len - next <= chunker.Overlap
                    THEN LET f == MakeChunk(r.mem, next, chunker.len)
                         IN  chunker' =
                               [chunker EXCEPT !.pc = "done", !.err = "nil",
                                               !.pos = next, !.mem = f.mem,
                                               !.chunks = @ \o <<r.chunk, f.chunk>>]
                    ELSE chunker' =
                           [chunker EXCEPT !.pos = next, !.mem = r.mem,
                                           !.chunks = Append(@, r.chunk)]
    /\ UNCHANGED << scannerVars, ctor, skipProbe, binProbe, writer, app >>

\* a loop that advances by the full MaxSize - Overlap after a shortened window
ChunkLoopFullAdvance ==
    /\ chunker.pc = "loop"
    /\ chunker.pos < chunker.len
    /\ LET pos       == chunker.pos
           chunkSize == IF pos + chunker.MaxSize > chunker.len
                        THEN chunker.len - pos ELSE chunker.MaxSize
       IN  IF chunkSize < 0
           THEN chunker' = [chunker EXCEPT !.pc = "panic"]
           ELSE LET r       == MakeChunk(chunker.mem, pos, pos + chunkSize)
                    advance == IF chunker.MaxSize - chunker.Overlap < 1 THEN 1
                               ELSE chunker.MaxSize - chunker.Overlap
                    next    == pos + advance
                IN  IF next < chunker.len /\ chunker.len - next <= chunker.Overlap
                    THEN LET f == MakeChunk(r.mem, next, chunker.len)
                         IN  chunker' =
                               [chunker EXCEPT !.pc = "done", !.err = "nil",
                                               !.pos = next, !.mem = f.mem,
                                               !.chunks = @ \o <<r.chunk, f.chunk>>]
                    ELSE chunker' =
                           [chunker EXCEPT !.pos = next, !.mem = r.mem,
                                           !.chunks = Append(@, r.chunk)]
    /\ UNCHANGED << scannerVars, ctor, skipProbe, binProbe, writer, app >>

\* one iteration of for pos < contentLen: the window's chunk, the advance,
\* and the final chunk with break when no more than Overlap bytes remain
ChunkLoop ==
    /\ chunker.pc = "loop"
    /\ chunker.pos < chunker.len
    /\ LET pos       == chunker.pos
           chunkSize == IF pos + chunker.MaxSize > chunker.len
                        THEN chunker.len - pos ELSE chunker.MaxSize
       IN  IF chunkSize < 0
           THEN chunker' = [chunker EXCEPT !.pc = "panic"]
           ELSE LET r       == MakeChunk(chunker.mem, pos, pos + chunkSize)
                    advance == IF chunkSize - chunker.Overlap < 1 THEN 1
                               ELSE chunkSize - chunker.Overlap
                    next    == pos + advance
                IN  IF next < chunker.len /\ chunker.len - next <= chunker.Overlap
                    THEN LET f == MakeChunk(r.mem, next, chunker.len)
                         IN  chunker' =
                               [chunker EXCEPT !.pc = "done", !.err = "nil",
                                               !.pos = next, !.mem = f.mem,
                                               !.chunks = @ \o <<r.chunk, f.chunk>>]
                    ELSE chunker' =
                           [chunker EXCEPT !.pos = next, !.mem = r.mem,
                                           !.chunks = Append(@, r.chunk)]
    /\ UNCHANGED << scannerVars, ctor, skipProbe, binProbe, writer, app >>

\* the loop condition fails: return chunks, nil
ChunkReturn ==
    /\ chunker.pc = "loop"
    /\ chunker.pos >= chunker.len
    /\ chunker' = [chunker EXCEPT !.pc = "done", !.err = "nil"]
    /\ UNCHANGED << scannerVars, ctor, skipProbe, binProbe, writer, app >>

\* the bytes the caller's content slice holds now
ContentNow == SubSeq(chunker.mem, 1, chunker.len)

\* the bytes chunk c's Content holds now
Body(c) == IF c.shared THEN SubSeq(chunker.mem, c.lo + 1, c.hi) ELSE c.own

\* the []types.Chunk a call returned, as the caller reads it
Returned ==
    [i \in 1..Len(chunker.chunks) |->
        [Content |-> Body(chunker.chunks[i]),
         StartLine |-> chunker.chunks[i].StartLine,
         EndLine |-> chunker.chunks[i].EndLine,
         TokenCount |-> chunker.chunks[i].TokenCount]]

\* the caller chunks the same bytes once more, from a fresh slice, with a
\* Chunker whose options differ in MaxTokens and PreserveML only
ChunkAgain ==
    /\ chunker.pc = "done"
    /\ chunker.run = 1
    /\ \E spare \in {0, 1}, tk \in TokenOpts \ {<<chunker.MaxTokens, chunker.PreserveML>>} :
          chunker' = [chunker EXCEPT !.pc = "call", !.run = 2, !.prev = Returned,
                                     !.mem = chunker.orig \o [i \in 1..spare |-> 0],
                                     !.MaxTokens = tk[1], !.PreserveML = tk[2],
                                     !.pos = 0, !.chunks = <<>>, !.err = "none"]
    /\ UNCHANGED << scannerVars, ctor, skipProbe, binProbe, writer, app >>

NextChunk ==
    \/ ChunkCall
    \/ ChunkLoop
    \/ ChunkReturn
    \/ ChunkAgain

SpecChunk == InitChunk /\ [][NextChunk]_vars

\* the window of chunk c cut from the content as the caller passed it,
\* trimmed and terminated
FromOriginal(c) ==
    LET t == TrimSpace(chunker.orig, c.from, c.to)
    IN  IF t.isNil THEN <<10>> ELSE Append(SubSeq(chunker.orig, t.a + 1, t.b), 10)

ChunkerRuns == chunker.pc \in {"call", "loop", "done"}

\* C19: Chunk never modifies its input: the content holds the bytes it was
\* passed with, every chunk is its window of those original bytes, and no
\* chunk made later changes the bytes of a chunk made earlier.
C19_InputNeverModified ==
    ChunkerRuns =>
        /\ ContentNow = chunker.orig
        /\ \A i \in 1..Len(chunker.chunks) :
              /\ chunker.chunks[i].made = FromOriginal(chunker.chunks[i])
              /\ Body(chunker.chunks[i]) = chunker.chunks[i].made

\* C20: for 0 <= overlap < maxSize every byte offset of the content lies in
\* the source window of some chunk, and the chunk bodies give the content
\* back up to trimmed white space: every byte that is not white space is
\* found at its offset in the body of a chunk whose window holds it.
C20_ChunksCoverContent ==
    (chunker.pc = "done" /\ chunker.Overlap >= 0 /\ chunker.Overlap < chunker.MaxSize) =>
        \A k \in 0..(chunker.len - 1) :
            /\ \E i \in 1..Len(chunker.chunks) :
                  chunker.chunks[i].from <= k /\ k < chunker.chunks[i].to
            /\ chunker.orig[k + 1] \notin AsciiSpace =>
                  \E i \in 1..Len(chunker.chunks) :
                      LET c == chunker.chunks[i]
                      IN  /\ c.from <= k /\ k < c.to
                          /\ c.lo <= k /\ k - c.lo + 1 < Len(Body(c))
                          /\ Body(c)[k - c.lo + 1] = chunker.orig[k + 1]

\* a call with the options in their documented range has returned
ChunkDone == chunker.pc = "done" /\ chunker.MaxSize >= 1 /\ chunker.Overlap >= 0

\* C21: in every result of Chunk the content field of each chunk but the
\* last is no longer than maxSize, and the last chunk is not empty.
C21_ChunkWithinMaxSize ==
    ChunkDone =>
        /\ \A i \in 1..(Len(chunker.chunks) - 1) :
              Len(Returned[i].Content) <= chunker.MaxSize
        /\ Len(chunker.chunks) > 0 => Len(Returned[Len(chunker.chunks)].Content) > 0

\* a call on 70 bytes with MaxSize 20 and Overlap 5 has returned
SeventyDone ==
    chunker.pc = "done" /\ chunker.len = 70 /\ chunker.MaxSize = 20 /\ chunker.Overlap = 5

CeilDiv(a, b) == (a + b - 1) \div b

\* C23: for content longer than maxSize and 0 < overlap < maxSize the number
\* of chunks is ceil((len - overlap) / (maxSize - overlap)) + 1, whatever the
\* bytes are; 66 bytes with maxSize 20 and overlap 5 give 6.
C23_ChunkCountFormula ==
    (chunker.pc = "done" /\ chunker.len > chunker.MaxSize
        /\ 0 < chunker.Overlap /\ chunker.Overlap < chunker.MaxSize) =>
        /\ Len(chunker.chunks) =
              CeilDiv(chunker.len - chunker.Overlap, chunker.MaxSize - chunker.Overlap) + 1
        /\ (chunker.len = 66 /\ chunker.MaxSize = 20 /\ chunker.Overlap = 5) =>
              Len(chunker.chunks) = 6

\* the content of TestChunker was chunked into 6 chunks
C23_Witness ==
    /\ chunker.pc = "done"
    /\ chunker.orig = TestContent /\ chunker.MaxSize = 20 /\ chunker.Overlap = 5
    /\ Len(chunker.chunks) = 6

\* C24: non-empty content no longer than maxSize gives exactly one chunk:
\* the whole input, trimmed of white space, and one line feed; whatever
\* overlap and maxTokens are.
C24_FittingContentOneChunk ==
    (chunker.pc = "done" /\ 0 < chunker.len /\ chunker.len <= chunker.MaxSize) =>
        /\ Len(chunker.chunks) = 1
        /\ Returned[1].Content =
              (LET t == TrimSpace(chunker.orig, 0, chunker.len)
               IN  IF t.isNil THEN <<10>>
                   ELSE Append(SubSeq(chunker.orig, t.a + 1, t.b), 10))

\* a letter and a blank with MaxSize 2 and a negative Overlap: one chunk,
\* the letter and a line feed
C24_Witness ==
    /\ chunker.pc = "done"
    /\ chunker.orig = <<97, 32>> /\ chunker.MaxSize = 2 /\ chunker.Overlap < 0
    /\ Len(chunker.chunks) = 1
    /\ Returned[1].Content = <<97, 10>>

\* C25: empty content gives the empty sequence and no error, whatever
\* maxSize, overlap and maxTokens are.
C25_EmptyContentNoChunks ==
    (chunker.pc # "none" /\ chunker.len = 0) =>
        /\ chunker.pc \in {"call", "done"}
        /\ chunker.chunks = <<>>
        /\ chunker.pc = "done" => chunker.err = "nil"

\* empty content was chunked with a negative MaxSize and a negative Overlap
C25_Witness ==
    /\ chunker.pc = "done"
    /\ chunker.len = 0 /\ chunker.MaxSize < 0 /\ chunker.Overlap < 0
    /\ chunker.chunks = <<>> /\ chunker.err = "nil"

\* C26: for maxSize >= 1 and overlap >= 0, overlap >= maxSize included,
\* Chunk terminates: the call never panics, every iteration moves the window
\* position forward, the position never passes the end of the content by
\* more than one window, and no more than len + 1 chunks are made.
C26_ChunkTerminates ==
    /\ []((chunker.MaxSize >= 1 /\ chunker.Overlap >= 0) =>
              /\ chunker.pc \in {"call", "loop", "done"}
              /\ chunker.pos >= 0 /\ chunker.pos <= chunker.len + chunker.MaxSize
              /\ Len(chunker.chunks) <= chunker.len + 1)
    /\ [][(chunker.MaxSize >= 1 /\ chunker.Overlap >= 0
              /\ chunker.pc = "loop" /\ chunker.pos < chunker.len) =>
                  chunker'.pos > chunker.pos]_chunker

\* a call with Overlap >= MaxSize returned several chunks
C26_Witness ==
    /\ ChunkDone
    /\ chunker.Overlap >= chunker.MaxSize
    /\ chunker.len >= 3
    /\ Len(chunker.chunks) >= 2

MaxWriterOps == 4

\* the three formats of types.OutputFormat and one that is none of them
Formats == {"xml", "json", "yaml", "toml"}

\* the path of the content written: empty, the one of TestWriter, another
WriterPaths == {"", "test.txt", "b.txt"}

NonEmptyPaths == WriterPaths \ {""}

\* what one write call puts into the file
Piece(tag, path, content) == [tag |-> tag, path |-> path, content |-> content]

\* io.WriteString, fmt.Fprintf and the encoders on w.file: the bytes reach the
\* file while it is open, and the call fails once it has been closed
FileWrite(w, pieces) ==
    IF w.file = "open"
    THEN [w |-> [w EXCEPT !.disk.data = @ \o pieces], err |-> "nil"]
    ELSE [w |-> w, err |-> "file already closed"]

\* the header initialize writes for the format
Header(format) ==
    CASE format = "xml" -> <<Piece("<?xml?><files>", "", "")>>
      [] format = "json" -> <<Piece("{", "", "")>>
      [] format = "yaml" -> <<Piece("---", "", "")>>
      [] OTHER -> <<>>

\* initialize: the first call creates the file and writes the header, keeping
\* the error; every later call returns the error kept
initialize(w) ==
    IF w.once
    THEN [w |-> w, err |-> w.initError]
    ELSE IF w.createFails
         THEN [w |-> [w EXCEPT !.once = TRUE, !.initError = "creating output file"],
               err |-> "creating output file"]
         ELSE LET created == [w EXCEPT !.once = TRUE, !.file = "open",
                                       !.disk = [exists |-> TRUE, data |-> <<>>]]
              IN IF w.opts.Format \in {"xml", "json", "yaml"}
                 THEN [w |-> FileWrite(created, Header(w.opts.Format)).w, err |-> "nil"]
                 ELSE [w |-> [created EXCEPT !.file = "closed",
                                             !.initError = "writing format header"],
                       err |-> "writing format header"]

\* the orders in which a range over the buffer can visit its keys
Orders(S) == {o \in [1..Cardinality(S) -> S] : \A i, j \in 1..Cardinality(S) : o[i] = o[j] => i = j}

\* flushXML, flushJSON, flushYAML: every buffered content is written, in the
\* order of the range; the buffer is left as it is
flushPieces(w, order) ==
    LET files == [i \in 1..Len(order) |-> Piece("file", order[i], w.buffer[order[i]])]
    IN IF w.opts.Format = "json" THEN <<Piece("\"files\": [", "", "")>> \o files ELSE files

\* the record of one call: what was called, on which path, what it returned
Called(w, op, path, err) == [w EXCEPT !.hist = Append(@, [op |-> op, path |-> path, err |-> err])]

WriterFresh(o, cf) ==
    [pc |-> "new", opts |-> o, createFails |-> cf, file |-> "nil", once |-> FALSE,
     initError |-> "nil", buffer |-> <<>>, disk |-> [exists |-> FALSE, data |-> <<>>],
     hist |-> <<>>]

\* the buffer is a function from paths to contents; <<>> is the empty one
Buffered(w) == DOMAIN w.buffer

BufferPut(b, path, content) == [q \in DOMAIN b \cup {path} |-> IF q = path THEN content ELSE b[q]]

BufferDelete(b, path) == [q \in DOMAIN b \ {path} |-> b[q]]

InitWriter ==
    /\ ScannerFresh
    /\ \E out \in {"", "test_output"}, f \in Formats, cf \in BOOLEAN :
          writer = WriterFresh([OutputPath |-> out, Format |-> f], cf)
    /\ CtorIdle /\ SkipIdle /\ BinIdle /\ ChunkerIdle /\ AppIdle

writerFrame == << scannerVars, ctor, skipProbe, binProbe, chunker, app >>

WriterCanCall == writer.pc = "ready" /\ Len(writer.hist) < MaxWriterOps

\* New(opts): an empty output path is refused, and no file is created yet
WriterNew ==
    /\ writer.pc = "new"
    /\ writer' = [writer EXCEPT !.pc = IF writer.opts.OutputPath = "" THEN "failed" ELSE "ready"]
    /\ UNCHANGED writerFrame

\* Write(content): refuses an empty path, else stores the content under its path
WriterWrite ==
    /\ WriterCanCall
    /\ \E path \in WriterPaths, content \in {"test content", "other content"} :
          writer' = IF path = ""
                    THEN Called(writer, "Write", path, "content path cannot be empty")
                    ELSE Called([writer EXCEPT !.buffer = BufferPut(@, path, content)],
                                "Write", path, "nil")
    /\ UNCHANGED writerFrame

\* Remove(path)
WriterRemove ==
    /\ WriterCanCall
    /\ \E path \in NonEmptyPaths :
          writer' = Called([writer EXCEPT !.buffer = BufferDelete(@, path)], "Remove", path, "nil")
    /\ UNCHANGED writerFrame

\* Flush()
WriterFlush ==
    /\ WriterCanCall
    /\ IF Buffered(writer) = {}
       THEN writer' = Called(writer, "Flush", "", "nil")
       ELSE LET i == initialize(writer)
            IN IF i.err # "nil"
               THEN writer' = Called(i.w, "Flush", "", "initializing writer")
               ELSE IF writer.opts.Format \notin {"xml", "json", "yaml"}
                    THEN writer' = Called(i.w, "Flush", "", "unsupported format")
                    ELSE \E order \in Orders(Buffered(writer)) :
                            LET r == FileWrite(i.w, flushPieces(i.w, order))
                            IN writer' = Called(r.w, "Flush", "", r.err)
    /\ UNCHANGED writerFrame

\* WriteDirectoryContext(cwd, tree)
WriterDirectoryContext ==
    /\ WriterCanCall
    /\ LET i == initialize(writer)
       IN IF i.err # "nil"
          THEN writer' = Called(i.w, "WriteDirectoryContext", "", "initializing writer")
          ELSE IF writer.opts.Format \notin {"xml", "json", "yaml"}
               THEN writer' = Called(i.w, "WriteDirectoryContext", "", "unsupported format")
               ELSE LET r == FileWrite(i.w, <<Piece("directory_context", "", "")>>)
                    IN writer' = Called(r.w, "WriteDirectoryContext", "", r.err)
    /\ UNCHANGED writerFrame

\* the closing tag Close writes for the format
Footer(format) ==
    CASE format = "xml" -> <<Piece("</files>", "", "")>>
      [] format = "json" -> <<Piece("]}", "", "")>>
      [] OTHER -> <<>>

\* Close(): nothing to do when no file was created; else the closing tag and
\* the close of the file
WriterClose ==
    /\ WriterCanCall
    /\ IF writer.file = "nil"
       THEN writer' = Called(writer, "Close", "", "nil")
       ELSE LET r == IF Footer(writer.opts.Format) = <<>>
                     THEN [w |-> writer, err |-> "nil"]
                     ELSE FileWrite(writer, Footer(writer.opts.Format))
            IN IF r.err # "nil"
               THEN writer' = Called([r.w EXCEPT !.file = "closed"], "Close", "", "writing closing tags")
               ELSE IF r.w.file = "closed"
                    THEN writer' = Called(r.w, "Close", "", "closing file")
                    ELSE writer' = Called([r.w EXCEPT !.file = "closed"], "Close", "", "nil")
    /\ UNCHANGED writerFrame

NextWriter ==
    \/ WriterNew
    \/ WriterWrite
    \/ WriterRemove
    \/ WriterFlush
    \/ WriterDirectoryContext
    \/ WriterClose

SpecWriter == InitWriter /\ [][NextWriter]_vars

\* the calls of TestWriter: one accepted Write, then Close, and nothing else
WroteThenClosed ==
    /\ writer.pc = "ready"
    /\ writer.opts.Format \in {"xml", "json", "yaml"}
    /\ Len(writer.hist) = 2
    /\ writer.hist[1].op = "Write" /\ writer.hist[1].err = "nil"
    /\ writer.hist[2].op = "Close"

\* C28: after a Write of content with a non-empty path followed by Close(),
\* with no Flush in between, the output file exists and is not empty, for
\* XML, JSON and YAML.
C28_WriteThenCloseLeavesFile ==
    WroteThenClosed => writer.disk.exists /\ writer.disk.data # <<>>

\* ---------------------------------------------------------------------------
\* The App: the goroutine of startScanning reading the scanner's two streams,
\* toggleSelection on the UI goroutine, and the goroutines it starts for
\* processAndWriteEntry, over a FileWriter.
\* ---------------------------------------------------------------------------

\* errors the scanner reports besides its entries
MaxScanErrs == 1

\* iterations in which the select takes the closed error stream
MaxSpins == 2

\* calls of toggleSelection
MaxToggles == 3

\* the entries of TestApp's scanner, in the order it sends them
AppFiles == <<"test1.txt", "test2.txt">>

AppFresh(errs, fails) ==
    [pc |-> "scanning",
     sent |-> 0,              \* entries the scanner has sent
     errsLeft |-> errs,       \* errors the scanner has still to send
     filesClosed |-> FALSE, errsClosed |-> FALSE,
     firstClosed |-> "none",  \* the stream closed first
     cons |-> "select",       \* the goroutine of startScanning
     held |-> "",             \* the entry it received and has not added yet
     spins |-> 0,
     ctxDone |-> FALSE,       \* a.cancel() was called
     entries |-> <<>>,        \* a.entries
     status |-> 0,            \* messages given to updateStatus
     ui |-> "idle",           \* toggleSelection between its unlock and its Remove
     uiPath |-> "",
     toggles |-> 0,
     jobs |-> <<>>,           \* the goroutines of processAndWriteEntry
     procFails |-> fails]     \* the paths for which Process returns an error

InitApp ==
    /\ ScannerFresh
    /\ \E errs \in 0..MaxScanErrs, fails \in {{}, {AppFiles[2]}} : app = AppFresh(errs, fails)
    /\ writer = [WriterFresh([OutputPath |-> "test_output", Format |-> "xml"], FALSE)
                    EXCEPT !.pc = "ready"]
    /\ CtorIdle /\ SkipIdle /\ BinIdle /\ ChunkerIdle

appFrame == << scannerVars, ctor, skipProbe, binProbe, chunker >>

\* the scanner has sent everything it had to send
ScanAllSent == app.sent = Len(AppFiles) /\ app.errsLeft = 0

\* filesChan <- f meets case entry, ok := <-filesChan
ConsRecvEntry ==
    /\ app.pc = "scanning" /\ app.cons = "select"
    /\ ~app.filesClosed /\ app.sent < Len(AppFiles)
    /\ app' = [app EXCEPT !.sent = @ + 1, !.cons = "add", !.held = AppFiles[app.sent + 1]]
    /\ UNCHANGED << appFrame, writer >>

\* a.addEntry(entry)
ConsAddEntry ==
    /\ app.cons = "add"
    /\ app' = [app EXCEPT !.entries = Append(@, [Path |-> app.held, IsSelected |-> FALSE]),
                          !.cons = "select", !.held = ""]
    /\ UNCHANGED << appFrame, writer >>

\* case entry, ok := <-filesChan with ok false: return
ConsFilesClosed ==
    /\ app.cons = "select" /\ app.filesClosed
    /\ app' = [app EXCEPT !.cons = "done"]
    /\ UNCHANGED << appFrame, writer >>

ConsRecvErrReturns ==
    /\ app.pc = "scanning" /\ app.cons = "select"
    /\ ~app.errsClosed /\ app.errsLeft > 0
    /\ app' = [app EXCEPT !.errsLeft = @ - 1, !.status = @ + 1, !.cons = "done"]
    /\ UNCHANGED << appFrame, writer >>

\* an error sent by the scanner meets case err := <-errChan: updateStatus, and
\* the loop goes on
ConsRecvErr ==
    /\ app.pc = "scanning" /\ app.cons = "select"
    /\ ~app.errsClosed /\ app.errsLeft > 0
    /\ app' = [app EXCEPT !.errsLeft = @ - 1, !.status = @ + 1]
    /\ UNCHANGED << appFrame, writer >>

\* case err := <-errChan on the closed stream: err is nil, and the loop goes on
ConsErrsClosed ==
    /\ app.cons = "select" /\ app.errsClosed
    /\ app.spins < MaxSpins
    /\ app' = [app EXCEPT !.spins = @ + 1]
    /\ UNCHANGED << appFrame, writer >>

\* case <-a.ctx.Done(): return
ConsCtxDone ==
    /\ app.cons = "select" /\ app.ctxDone
    /\ app' = [app EXCEPT !.cons = "done"]
    /\ UNCHANGED << appFrame, writer >>

\* the scanner closes its stream of entries
ScanCloseFiles ==
    /\ app.pc = "scanning" /\ ScanAllSent /\ ~app.filesClosed
    /\ app' = [app EXCEPT !.filesClosed = TRUE,
                          !.firstClosed = IF @ = "none" THEN "files" ELSE @]
    /\ UNCHANGED << appFrame, writer >>

\* the scanner closes its stream of errors
ScanCloseErrs ==
    /\ app.pc = "scanning" /\ ScanAllSent /\ ~app.errsClosed
    /\ app' = [app EXCEPT !.errsClosed = TRUE,
                          !.firstClosed = IF @ = "none" THEN "errs" ELSE @]
    /\ UNCHANGED << appFrame, writer >>

\* a.cancel(), from Stop or at the end of Run
AppCancel ==
    /\ app.pc = "scanning" /\ ~app.ctxDone
    /\ app' = [app EXCEPT !.ctxDone = TRUE]
    /\ UNCHANGED << appFrame, writer >>

\* toggleSelection(idx), idx counted from 0: out of range it returns; else it
\* flips IsSelected under a.mu, then starts processAndWriteEntry for an entry
\* now selected, or goes on to Remove for one now deselected
ToggleSelection ==
    /\ app.pc = "scanning" /\ app.ui = "idle" /\ app.toggles < MaxToggles
    /\ \E idx \in 0..Len(AppFiles) :
          IF idx >= Len(app.entries)
          THEN app' = [app EXCEPT !.toggles = @ + 1]
          ELSE LET entry == [app.entries[idx + 1] EXCEPT !.IsSelected = ~@]
               IN IF entry.IsSelected
                  THEN app' = [app EXCEPT !.toggles = @ + 1,
                                          !.entries[idx + 1] = entry,
                                          !.jobs = Append(@, [path |-> entry.Path, pc |-> "process"])]
                  ELSE app' = [app EXCEPT !.toggles = @ + 1,
                                          !.entries[idx + 1] = entry,
                                          !.ui = "remove", !.uiPath = entry.Path]
    /\ UNCHANGED << appFrame, writer >>

\* a.writer.Remove(entry.Path), on the UI goroutine
ToggleRemove ==
    /\ app.ui = "remove"
    /\ writer' = Called([writer EXCEPT !.buffer = BufferDelete(@, app.uiPath)],
                        "Remove", app.uiPath, "nil")
    /\ app' = [app EXCEPT !.ui = "idle", !.uiPath = ""]
    /\ UNCHANGED appFrame

\* processAndWriteEntry: a.processor.Process(entry), and the return on its error
JobProcess ==
    /\ \E j \in 1..Len(app.jobs) :
          /\ app.jobs[j].pc = "process"
          /\ IF app.jobs[j].path \in app.procFails
             THEN app' = [app EXCEPT !.jobs[j].pc = "failed", !.status = @ + 1]
             ELSE app' = [app EXCEPT !.jobs[j].pc = "write"]
    /\ UNCHANGED << appFrame, writer >>

\* processAndWriteEntry: a.writer.Write(processed), then updateStatus
JobWrite ==
    /\ \E j \in 1..Len(app.jobs) :
          /\ app.jobs[j].pc = "write"
          /\ writer' = Called([writer EXCEPT !.buffer = BufferPut(@, app.jobs[j].path, "test content")],
                              "Write", app.jobs[j].path, "nil")
          /\ app' = [app EXCEPT !.jobs[j].pc = "done", !.status = @ + 1]
    /\ UNCHANGED appFrame

NextApp ==
    \/ ConsRecvEntry
    \/ ConsAddEntry
    \/ ConsFilesClosed
    \/ ConsRecvErr
    \/ ConsErrsClosed
    \/ ConsCtxDone
    \/ ScanCloseFiles
    \/ ScanCloseErrs
    \/ AppCancel
    \/ ToggleSelection
    \/ ToggleRemove
    \/ JobProcess
    \/ JobWrite

SpecApp == InitApp /\ [][NextApp]_vars

AppRuns == app.pc = "scanning"

\* the paths of a.entries, in order
EntryPaths == [i \in 1..Len(app.entries) |-> app.entries[i].Path]

\* the entries the scanner has emitted, in order
Emitted == SubSeq(AppFiles, 1, app.sent)

\* the goroutine of startScanning is scheduled, and its select, which picks
\* at random among the cases that are ready, does not pass over a case that
\* stays ready for ever
FairSpecApp ==
    SpecApp /\ WF_vars(ConsAddEntry) /\ WF_vars(ConsFilesClosed) /\ WF_vars(ConsCtxDone)

\* at every moment the entries added and the one held are the ones emitted;
\* with the context not cancelled the goroutine returns only on the closed
\* stream of entries; with both streams closed and nothing held, a.entries
\* is what was emitted
EntriesFollowEmitted ==
    AppRuns =>
       /\ EntryPaths \o (IF app.cons = "add" THEN <<app.held>> ELSE <<>>) = Emitted
       /\ (app.cons = "done" /\ ~app.ctxDone) => app.filesClosed
       /\ (app.filesClosed /\ app.errsClosed /\ app.cons # "add")
             => EntryPaths = Emitted /\ Emitted = AppFiles

\* C29: once the scanner has closed both its streams, whichever it closed
\* first, a.entries comes to hold exactly the emitted entries, one each and in
\* order, and the goroutine of startScanning returns; no entry is lost or
\* added twice on the way, and with the context not cancelled the goroutine
\* returns only on the closed stream of entries.
C29_EntriesMatchEmitted ==
    /\ []EntriesFollowEmitted
    /\ (AppRuns /\ app.filesClosed /\ app.errsClosed)
          ~> (EntryPaths = AppFiles /\ app.cons = "done")

C29_Witness ==
    /\ AppRuns
    /\ app.filesClosed /\ app.errsClosed /\ ~app.ctxDone
    /\ app.firstClosed = "files"
    /\ app.cons = "done"
    /\ app.spins > 0
    /\ app.status > 0
    /\ EntryPaths = AppFiles

\* no call of toggleSelection and no goroutine of processAndWriteEntry is
\* still under way, and no Process failed
Quiesced ==
    /\ AppRuns
    /\ app.ui = "idle"
    /\ \A j \in 1..Len(app.jobs) : app.jobs[j].pc = "done"

\* C30: once toggleSelection and the goroutines it started have come to rest,
\* an entry's content is buffered in the writer exactly when the entry is
\* selected.
C30_WriterTracksSelection ==
    Quiesced =>
       \A i \in 1..Len(app.entries) :
          app.entries[i].IsSelected <=> app.entries[i].Path \in Buffered(writer)

\* ---------------------------------------------------------------------------
\* The scanner's handoff of paths from the walker to the workers
\* ---------------------------------------------------------------------------

\* the workers that have a path in hand
Busy == {w \in Workers : wkpath[w] # 0}

\* a step in which a worker receives file n
Receives(n) == recvCount'[n] > recvCount[n]

\* a receipt of n is one rendezvous: the walker was offering n, it moves on,
\* and one worker that was at its receive, and no other, now has n in hand
OneTaker(n) ==
    /\ wlkpc = "sendPath" /\ wlknode = n
    /\ wlknode' > n
    /\ recvCount'[n] = recvCount[n] + 1
    /\ \E w \in Workers :
          /\ wkpc[w] = "select" /\ wkpath'[w] = n
          /\ \A v \in Workers \ {w} : wkpath'[v] = wkpath[v] /\ wkpc'[v] = wkpc[v]

NoSharedPath ==
    /\ \A n \in Files : recvCount[n] <= 1 /\ Cardinality(Holding(n)) <= 1
    /\ \A n \in Files : recvCount[n] > 0 => wlknode > n

\* C31: no path is processed by two workers: the walker offers every file
\* it visits at most once, and each offer is taken by exactly one worker.
C31_NoPathProcessedTwice ==
    /\ []NoSharedPath
    /\ [][\A n \in Files : Receives(n) => OneTaker(n)]_vars

\* every file of the tree was received, by three different workers that have
\* them in hand at the same time
C31_Witness ==
    /\ \A n \in Files : recvCount[n] = 1 /\ Cardinality(Holding(n)) = 1
    /\ Cardinality(Busy) = Cardinality(Files)

\* the receipts of n that have not yet ended in an entry, an error or an
\* abandoned send
InFlight(n) ==
    recvCount[n] - resCount[n] - errCount[n] - (IF n \in aborted THEN 1 ELSE 0)

Backpressure ==
    /\ \A n \in Files : InFlight(n) = Cardinality(Holding(n))
    /\ Cardinality(Busy) <= workerCount
    /\ \A w \in Workers : wkpath[w] # 0 <=> wkpc[w] \in {"proc", "sendRes", "sendErr"}
    /\ wlkpc = "sendPath" => wlknode \in Files /\ recvCount[wlknode] = 0

Max(a, b) == IF a >= b THEN a ELSE b

Min(a, b) == IF a <= b THEN a ELSE b

\* an iteration of the loop is about to run, under options in their range
Sliding ==
    /\ chunker.pc = "loop" /\ chunker.pos < chunker.len
    /\ chunker.MaxSize >= 1 /\ chunker.Overlap >= 0

\* the chunks the step adds
Added == SubSeq(chunker'.chunks, Len(chunker.chunks) + 1, Len(chunker'.chunks))

\* the step adds the window's chunk and a final chunk for the tail
TailEmitted == Len(Added) = 2 /\ Added[2].from = chunker'.pos /\ Added[2].to = chunker.len

\* the tail rule: a final chunk exactly when, after the advance, at least one
\* and at most Overlap bytes remain, and then the loop is left
TailRule ==
    /\ TailEmitted <=> (chunker.len - chunker'.pos >= 1 /\ chunker.len - chunker'.pos <= chunker.Overlap)
    /\ ~TailEmitted => Len(Added) = 1
    /\ TailEmitted => chunker'.pc = "done"

\* C33 as stated: every iteration advances the position by
\* max(1, maxSize - overlap), and the tail rule holds.
C33_Original ==
    [][Sliding => /\ chunker'.pos = chunker.pos + Max(1, chunker.MaxSize - chunker.Overlap)
                  /\ TailRule]_vars

\* C33: every iteration advances the position by max(1, chunkSize - overlap),
\* where chunkSize is the length of the window just emitted,
\* min(maxSize, contentLen - pos); that is max(1, maxSize - overlap) for every
\* window of full length and less for a shortened last window; a final tail
\* chunk is emitted exactly when the bytes remaining after the advance number
\* at least 1 and at most overlap.
C33_AdvanceByWindow ==
    [][Sliding =>
         /\ chunker'.pos = chunker.pos
               + Max(1, Min(chunker.MaxSize, chunker.len - chunker.pos) - chunker.Overlap)
         /\ (chunker.pos + chunker.MaxSize <= chunker.len
                => chunker'.pos = chunker.pos + Max(1, chunker.MaxSize - chunker.Overlap))
         /\ Added[1].from = chunker.pos
         /\ Added[1].to = chunker.pos + Min(chunker.MaxSize, chunker.len - chunker.pos)
         /\ TailRule]_vars

\* a call ended with a shortened window, an advance smaller than
\* max(1, maxSize - overlap), and a tail chunk that starts inside that window
C33_Witness ==
    /\ ChunkDone /\ chunker.MaxSize >= 1 /\ chunker.Overlap >= 1
    /\ Len(chunker.chunks) >= 3
    /\ LET k == Len(chunker.chunks)
       IN  /\ chunker.chunks[k - 1].to - chunker.chunks[k - 1].from < chunker.MaxSize
           /\ chunker.chunks[k].from = chunker.pos
           /\ chunker.chunks[k].from < chunker.chunks[k - 1].to
           /\ chunker.pos - chunker.chunks[k - 1].from < Max(1, chunker.MaxSize - chunker.Overlap)

\* the bytes of chunk c without the line feed that ends them
Trimmed(c) == SubSeq(Body(c), 1, Len(Body(c)) - 1)

\* nothing of the Overlap bytes that the windows of chunks i and i + 1 share
\* was trimmed away on either side
OverlapKept(i) ==
    LET c == chunker.chunks[i]
        d == chunker.chunks[i + 1]
    IN  /\ c.hi - 1 = c.to /\ c.lo <= c.to - chunker.Overlap
        /\ d.lo = d.from /\ d.hi - 1 >= d.from + chunker.Overlap

\* a call with 0 < Overlap < MaxSize has returned
OverlapDone == chunker.pc = "done" /\ chunker.Overlap > 0 /\ chunker.Overlap < chunker.MaxSize

\* C34: with 0 < overlap < maxSize the window of chunk k+1 starts exactly
\* overlap bytes before the end of the window of chunk k, and the last
\* overlap bytes of chunk k are the first overlap bytes of chunk k+1
\* whenever trimming removed none of them on either side.
C34_OverlapReappears ==
    OverlapDone =>
        \A i \in 1..(Len(chunker.chunks) - 1) :
            LET c == chunker.chunks[i]
                d == chunker.chunks[i + 1]
            IN  /\ d.from = c.to - chunker.Overlap
                /\ OverlapKept(i) =>
                      /\ Len(Trimmed(c)) >= chunker.Overlap
                      /\ Len(Trimmed(d)) >= chunker.Overlap
                      /\ SubSeq(Trimmed(c), Len(Trimmed(c)) - chunker.Overlap + 1, Len(Trimmed(c)))
                           = SubSeq(Trimmed(d), 1, chunker.Overlap)

\* three chunks of the 66 bytes of TestChunker, the second and third keeping
\* the five bytes they share
C34_Witness ==
    /\ OverlapDone
    /\ chunker.orig = TestContent /\ chunker.Overlap = 5
    /\ Len(chunker.chunks) >= 3
    /\ \E i \in 1..(Len(chunker.chunks) - 1) :
          /\ OverlapKept(i)
          /\ \A k \in 1..chunker.Overlap : Trimmed(chunker.chunks[i + 1])[k] # 32

\* the maximal runs of bytes that are not white space in text, counted by
\* the byte each run ends with
Runs(text) ==
    Cardinality({i \in 1..Len(text) :
                    /\ text[i] \notin AsciiSpace
                    /\ (i = Len(text) \/ text[i + 1] \in AsciiSpace)})

\* C35: the tokenCount of every chunk returned is the number of maximal runs
\* of non-whitespace bytes in the chunk's content as returned, 0 for a chunk
\* cut from a window of white space; this holds for the single chunk of a
\* content that fits, for the chunks of the loop and for the final tail chunk.
C35_TokenCountIsRuns ==
    chunker.pc = "done" =>
        \A i \in 1..Len(Returned) :
            /\ Returned[i].TokenCount = Runs(Returned[i].Content)
            /\ (\A k \in (chunker.chunks[i].from + 1)..chunker.chunks[i].to :
                    chunker.orig[k] \in AsciiSpace) => Returned[i].TokenCount = 0

\* a call returned a chunk of two tokens, a chunk of none and a final tail
\* chunk
C35_Witness ==
    /\ ChunkDone
    /\ \E i \in 1..Len(Returned) : Returned[i].TokenCount >= 2
    /\ \E i \in 1..Len(Returned) : Returned[i].TokenCount = 0 /\ Returned[i].Content = <<10>>
    /\ Len(chunker.chunks) >= 3
    /\ chunker.chunks[Len(chunker.chunks)].from = chunker.pos
    /\ chunker.chunks[Len(chunker.chunks)].to = chunker.len

\* ---------------------------------------------------------------------------
\* The scanner's streams: sends after close, order of the closes
\* ---------------------------------------------------------------------------

\* C36: no goroutine sends on the result or the error channel once that
\* channel is closed; after Stop() the walker, still running when startScan
\* has closed both channels, never sends a traversal error on the closed
\* error channel.
C36_NoSendAfterClose == fault # "send on closed channel"

\* C37: the error channel is closed before the result channel: whenever the
\* result stream is closed the error stream is closed too, every worker has
\* returned with no entry or error left in hand, and, unless Stop() was
\* called, the walker is done as well; a consumer that reads results to the
\* end finds the error stream closed, with nothing in it to wait for.
C37_ErrorsClosedFirst ==
    closed["results"] =>
        /\ closed["errors"]
        /\ closeCount["errors"] = 1
        /\ \A w \in Workers : wkpc[w] = "exit" /\ wkpath[w] = 0
        /\ \A n \in Files : InFlight(n) = 0
        /\ ~cancelled => wlkpc = "done"

\* a scan that was not stopped has delivered an entry and an error and has
\* closed both streams
C37_Witness ==
    /\ closed["results"] /\ closed["errors"] /\ ~cancelled
    /\ fault = "none"
    /\ \E n \in Files : resCount[n] = 1
    /\ \E n \in Nodes : errCount[n] + walkErrCount[n] >= 1

\* ---------------------------------------------------------------------------
\* The App over the Scanner: startScanning calls Scan and its goroutine is
\* the consumer of both streams, until a.cancel().  The App has no call of
\* Scanner.Stop.
\* ---------------------------------------------------------------------------

InitQuit ==
    /\ InitScanner({}, {"both"})
    /\ app = AppFresh(0, {})
    /\ CtorIdle /\ SkipIdle /\ BinIdle /\ ChunkerIdle /\ WriterIdle

\* the goroutine of startScanning is at its select: a send on either stream
\* finds its receiver
AppReceiving == app.cons = "select"

\* s.results <- entry meets case entry, ok := <-filesChan, and a.addEntry
AppTakesEntry(w) == (AppReceiving \/ closed["results"]) /\ WorkerSendRes(w)

\* s.errors <- err meets case err := <-errChan, for a worker and for the walker
AppTakesError(w) == (AppReceiving \/ closed["errors"]) /\ WorkerSendErr(w)

AppTakesWalkError == (AppReceiving \/ closed["errors"]) /\ WalkSendErr

\* case entry, ok := <-filesChan with ok false, the scanner's results closed
AppSeesClosed ==
    /\ AppReceiving /\ closed["results"]
    /\ app' = [app EXCEPT !.cons = "done"]
    /\ UNCHANGED << appFrame, writer >>

\* the steps of the scanner's goroutines and of the App's goroutine
QuitInternal ==
    \/ SpawnWorker
    \/ SpawnWalker
    \/ StartScanWait
    \/ CloseErrors
    \/ CloseResults
    \/ WalkVisit
    \/ WalkFinish
    \/ AppTakesWalkError
    \/ \E w \in Workers : Handoff(w)
    \/ \E w \in Workers : WorkerPathsClosed(w)
    \/ \E w \in Workers : WorkerProcess(w)
    \/ \E w \in Workers : AppTakesEntry(w)
    \/ \E w \in Workers : AppTakesError(w)
    \/ AppSeesClosed
    \/ ConsCtxDone

NextQuit ==
    \/ \E o \in ScanOptsSet : Scan(o)
    \/ AppCancel
    \/ SpawnWorker
    \/ SpawnWalker
    \/ StartScanWait
    \/ CloseErrors
    \/ CloseResults
    \/ WalkVisit
    \/ WalkFinish
    \/ AppTakesWalkError
    \/ \E w \in Workers : Handoff(w)
    \/ \E w \in Workers : WorkerPathsClosed(w)
    \/ \E w \in Workers : WorkerProcess(w)
    \/ \E w \in Workers : AppTakesEntry(w)
    \/ \E w \in Workers : AppTakesError(w)
    \/ AppSeesClosed
    \/ ConsCtxDone

\* every goroutine that can take a step is scheduled; the calls of Scan and
\* of a.cancel() are under no obligation
FairSpecQuit == InitQuit /\ [][NextQuit]_vars /\ WF_vars(QuitInternal)

\* C38: once the application has cancelled its context, the scanner's walker
\* and workers exit and both of its streams are closed: no goroutine of the
\* scanner stays blocked on a send.
C38_QuitEndsScan ==
    (scanCalled /\ app.ctxDone) ~> (WalkerExited /\ WorkersExited /\ BothClosed)

\* C39: Chunk never faults and never returns an error, whatever the content
\* and the options: also with MaxSize <= 0 or a negative Overlap it makes no
\* slice access out of range, and it returns a finite sequence of chunks.
C39_ChunkNeverFaults ==
    /\ chunker.pc \in {"call", "loop", "done"}
    /\ chunker.pc = "done" => chunker.err = "nil" /\ Len(chunker.chunks) <= chunker.len + 1

\* ---------------------------------------------------------------------------
\* C40: what a sequence of Write, Remove and Flush leaves in the file
\* ---------------------------------------------------------------------------

\* the positions of the contents in the file, and those under one path
FilePieces(data) == {i \in 1..Len(data) : data[i].tag = "file"}

PiecesOf(data, path) == {i \in FilePieces(data) : data[i].path = path}

\* the accepted calls of Write on one path so far
WritesOf(path) ==
    {i \in 1..Len(writer.hist) : /\ writer.hist[i].op = "Write"
                                 /\ writer.hist[i].path = path
                                 /\ writer.hist[i].err = "nil"}

\* the calls that changed the buffer under one path, and whether the last of
\* them was a Write
BufferOps(path) ==
    {i \in 1..Len(writer.hist) : /\ writer.hist[i].op \in {"Write", "Remove"}
                                 /\ writer.hist[i].path = path
                                 /\ writer.hist[i].err = "nil"}

LastWasWrite(path) ==
    /\ BufferOps(path) # {}
    /\ \E i \in BufferOps(path) : /\ writer.hist[i].op = "Write"
                                  /\ \A j \in BufferOps(path) : j <= i

\* this step is a call of Flush
Flushes ==
    /\ Len(writer'.hist) = Len(writer.hist) + 1
    /\ writer'.hist[Len(writer'.hist)].op = "Flush"

\* what the step appended to the file
Flushed == SubSeq(writer'.disk.data, Len(writer.disk.data) + 1, Len(writer'.disk.data))

\* C40: a Flush that returns nil writes exactly the paths whose last buffer
\* operation was a Write, each once; no content stored by one Write reaches
\* the file more than once over all the calls of Flush; and a Flush on an
\* empty buffer creates no file.
C40_FlushWritesBufferOnce ==
    /\ [](\A path \in NonEmptyPaths :
             Cardinality(PiecesOf(writer.disk.data, path)) <= Cardinality(WritesOf(path)))
    /\ [][Flushes =>
            /\ writer'.hist[Len(writer'.hist)].err = "nil" =>
                  \A path \in WriterPaths :
                     Cardinality(PiecesOf(Flushed, path)) = IF LastWasWrite(path) THEN 1 ELSE 0
            /\ (\A path \in WriterPaths : ~LastWasWrite(path)) => writer'.disk = writer.disk]_vars

====
